---- MODULE Spec2Model ----
(***************************************************************************)
(* Flight_hotels: price normalisation and cheapest selection.              *)
(*                                                                         *)
(* Python values are tagged records: [t |-> "None"], [t |-> "missing"]     *)
(* (a key or attribute that is not there), [t |-> "int", n], [t |->        *)
(* "float", inf, num, den] (the rational num/den, or +infinity), [t |->    *)
(* "str", s] with s the sequence of the string's characters, and [t |->    *)
(* "dict", ...].  A call's outcome is [kind |-> "return", val] or          *)
(* [kind |-> "raise", exc].                                                *)
(***************************************************************************)
EXTENDS Integers, Sequences, FiniteSets, TLC

VARIABLES LITEAPI_API_KEY, op, arg, ret, scan, sent

vars == <<LITEAPI_API_KEY, op, arg, ret, scan, sent>>

(***************************************************************************)
(* Bounds of the explored inputs.                                          *)
(***************************************************************************)
MaxHotels == 3
MaxRooms == 2
MaxFlights == 2
MaxEvents == 2
MaxPriceLen == 3

(***************************************************************************)
(* Python values.                                                          *)
(***************************************************************************)
PyNone == [t |-> "None"]
Missing == [t |-> "missing"]
PyInt(n) == [t |-> "int", n |-> n]
PyFloat(n, d) == [t |-> "float", inf |-> FALSE, num |-> n, den |-> d]
PyInf == [t |-> "float", inf |-> TRUE, num |-> 0, den |-> 1]
PyStr(s) == [t |-> "str", s |-> s]
EmptyStr == PyStr(<<>>)
KRW == PyStr(<<"K", "R", "W">>)
USD == PyStr(<<"U", "S", "D">>)

Return(v) == [kind |-> "return", val |-> v]
Raise(e) == [kind |-> "raise", exc |-> e]

\* dict.get(key): the value, None when the key is absent
Get(v) == IF v = Missing THEN PyNone ELSE v
\* dict.get(key, default)
GetD(v, d) == IF v = Missing THEN d ELSE v

\* Python truthiness of a value (a dict is true when it has a key)
Truthy(v) ==
    CASE v.t = "None" -> FALSE
      [] v.t = "missing" -> FALSE
      [] v.t = "int" -> v.n # 0
      [] v.t = "float" -> v.inf \/ v.num # 0
      [] v.t = "str" -> Len(v.s) > 0
      [] v.t = "list" -> Len(v.items) > 0
      [] v.t = "dict" -> \E k \in DOMAIN v \ {"t"} : v[k] # Missing
      [] OTHER -> TRUE

\* a or b
OrElse(a, b) == IF Truthy(a) THEN a ELSE b

IsNumber(v) == v.t \in {"int", "float"}

\* an int or float as a float
AsFloat(v) == IF v.t = "int" THEN PyFloat(v.n, 1) ELSE v

\* a < b on floats, +infinity being the largest
FloatLt(a, b) ==
    IF a.inf THEN FALSE
    ELSE IF b.inf THEN TRUE
    ELSE a.num * b.den < b.num * a.den

FloatEq(a, b) ==
    IF a.inf \/ b.inf THEN a.inf /\ b.inf
    ELSE a.num * b.den = b.num * a.den

FloatLe(a, b) == FloatLt(a, b) \/ FloatEq(a, b)

Digits == {"0", "1", "2", "3", "4", "5", "6", "7", "8", "9"}

DigitVal(ch) ==
    CASE ch = "0" -> 0 [] ch = "1" -> 1 [] ch = "2" -> 2 [] ch = "3" -> 3
      [] ch = "4" -> 4 [] ch = "5" -> 5 [] ch = "6" -> 6 [] ch = "7" -> 7
      [] ch = "8" -> 8 [] ch = "9" -> 9

\* code point of the characters the inputs are made of
Ord(ch) ==
    CASE ch \in Digits -> 48 + DigitVal(ch)
      [] ch = "$" -> 36 [] ch = "+" -> 43 [] ch = "," -> 44 [] ch = "-" -> 45
      [] ch = "." -> 46 [] ch = "a" -> 97 [] ch = "b" -> 98 [] ch = "c" -> 99
      [] OTHER -> 8361

RECURSIVE SeqLt(_, _)
\* s < u on strings: lexicographic by code point
SeqLt(s, u) ==
    IF Len(u) = 0 THEN FALSE
    ELSE IF Len(s) = 0 THEN TRUE
    ELSE IF Ord(Head(s)) # Ord(Head(u)) THEN Ord(Head(s)) < Ord(Head(u))
    ELSE SeqLt(Tail(s), Tail(u))

\* a < b as Python evaluates it: numbers with numbers, strings with strings,
\* TypeError for any other pair
PyLt(a, b) ==
    IF IsNumber(a) /\ IsNumber(b) THEN Return(FloatLt(AsFloat(a), AsFloat(b)))
    ELSE IF a.t = "str" /\ b.t = "str" THEN Return(SeqLt(a.s, b.s))
    ELSE Raise("TypeError")

RECURSIVE MinFrom(_, _, _)
\* min(keys): the index of the first smallest key, each later key compared
\* with the running minimum; a comparison that raises ends the call
MinFrom(keys, i, best) ==
    IF i > Len(keys) THEN Return(best)
    ELSE LET c == PyLt(keys[i], keys[best])
         IN IF c.kind = "raise" THEN c
            ELSE MinFrom(keys, i + 1, IF c.val THEN i ELSE best)

\* mutant: the first element instead of the smallest
PyMin_First(keys) == Return(1)

PyMin(keys) == MinFrom(keys, 2, 1)

RECURSIVE DigitsValue(_, _)
DigitsValue(s, acc) ==
    IF Len(s) = 0 THEN acc
    ELSE IF Head(s) = "." THEN DigitsValue(Tail(s), acc)
    ELSE DigitsValue(Tail(s), 10 * acc + DigitVal(Head(s)))

RECURSIVE Pow10(_)
Pow10(k) == IF k = 0 THEN 1 ELSE 10 * Pow10(k - 1)

RECURSIVE IndexOf(_, _, _)
IndexOf(s, ch, i) ==
    IF i > Len(s) THEN 0 ELSE IF s[i] = ch THEN i ELSE IndexOf(s, ch, i + 1)

CountOf(s, ch) == Cardinality({i \in 1..Len(s) : s[i] = ch})

\* float(s) on a string of digits and '.', with an optional sign: the
\* number it spells, ValueError when it spells none
StrToFloat(s) ==
    LET neg == Len(s) > 0 /\ Head(s) = "-"
        body == IF Len(s) > 0 /\ Head(s) \in {"-", "+"} THEN Tail(s) ELSE s
        dot == IndexOf(body, ".", 1)
        frac == IF dot = 0 THEN 0 ELSE Len(body) - dot
        mag == DigitsValue(body, 0)
    IN IF /\ \A i \in 1..Len(body) : body[i] \in Digits \cup {"."}
          /\ CountOf(body, ".") <= 1
          /\ \E i \in 1..Len(body) : body[i] \in Digits
       THEN Return(PyFloat(IF neg THEN 0 - mag ELSE mag, Pow10(frac)))
       ELSE Raise("ValueError")

\* float(v)
ToFloat(v) ==
    CASE v.t = "int" -> Return(PyFloat(v.n, 1))
      [] v.t = "float" -> Return(v)
      [] v.t = "str" -> StrToFloat(v.s)
      [] OTHER -> Raise("TypeError")

(***************************************************************************)
(* Dicts and lists.  A dict is a record with t = "dict" whose other fields *)
(* are its keys; a list is [t |-> "list", items |-> sequence].             *)
(***************************************************************************)
EmptyDict == [t |-> "dict"]
PyList(items) == [t |-> "list", items |-> items]
EmptyList == PyList(<<>>)

\* d[k] when d has the key k, Missing otherwise
Field(d, k) == IF k \in DOMAIN d THEN d[k] ELSE Missing

(***************************************************************************)
(* Hotel_flight.py: search_hotels_for_dates                                *)
(***************************************************************************)
HotelOption(rank, hotel_id, name, star, address, total_price, curr, tag) ==
    [rank |-> rank, hotel_id |-> hotel_id, name |-> name, star_rating |-> star,
     address |-> address, total_price |-> total_price, currency |-> curr,
     refundable_tag |-> tag]

\* the provider call's failures that the try block turns into []
HotelTransportFailures == {"Timeout", "ConnectionError", "HTTPError", "JSONDecodeError"}

RECURSIVE MetaLookupFrom(_, _, _)
\* hotel_meta_map built from the metadata array (entries with a truthy id,
\* a later entry replacing an earlier one of the same id), read at hotel_id:
\* Missing when no entry has that id
MetaLookupFrom(hotels_meta, hotel_id, i) ==
    IF i = 0 THEN Missing
    ELSE LET h == hotels_meta[i]
             id == Get(Field(h, "id"))
         IN IF Truthy(id) /\ id = hotel_id THEN h
            ELSE MetaLookupFrom(hotels_meta, hotel_id, i - 1)

\* mutant: entries with an empty or missing id are in the map as well
hotel_meta_map_AnyId(hotels_meta, hotel_id) ==
    LET same == {i \in 1..Len(hotels_meta) :
                    OrElse(Get(Field(hotels_meta[i], "id")), EmptyStr) = hotel_id}
    IN IF same = {} THEN Missing
       ELSE hotels_meta[CHOOSE i \in same : \A j \in same : j <= i]

hotel_meta_map(hotels_meta, hotel_id) ==
    MetaLookupFrom(hotels_meta, hotel_id, Len(hotels_meta))

\* get_offer_amount of search_hotels_for_dates: the raw amount, +infinity
\* only when the amount key is absent
get_offer_amount(rt) ==
    LET offer == OrElse(Get(Field(rt, "offerRetailRate")), EmptyDict)
    IN GetD(Field(offer, "amount"), PyInf)

\* the address of a hotel_info
HotelAddress(hotel_info) ==
    LET addr == Get(Field(hotel_info, "address"))
    IN IF addr.t = "dict"
       THEN OrElse(OrElse(Get(Field(addr, "line1")), Get(Field(addr, "city"))), EmptyStr)
       ELSE IF addr.t = "str" THEN addr ELSE EmptyStr

\* one iteration of the loop over hotels_raw: [kind |-> "row", row], [kind |->
\* "skip"] (continue) or [kind |-> "raise", exc]
NormalizeHotel(hotel_obj, hotels_meta, currency) ==
    LET hotel_id == OrElse(Get(Field(hotel_obj, "hotelId")), EmptyStr)
        inline == OrElse(Get(Field(hotel_obj, "hotel")), EmptyDict)
        meta == hotel_meta_map(hotels_meta, hotel_id)
        hotel_info == IF ~Truthy(inline) /\ meta # Missing
                      THEN OrElse(meta, EmptyDict) ELSE inline
        name == OrElse(OrElse(OrElse(Get(Field(hotel_info, "name")),
                                     Get(Field(hotel_info, "hotelName"))),
                              Get(Field(hotel_obj, "hotelName"))), EmptyStr)
        star0 == Get(Field(hotel_info, "starRating"))
        star == IF star0 = PyNone THEN Get(Field(hotel_info, "rating")) ELSE star0
        address == HotelAddress(hotel_info)
        room_types == OrElse(Get(Field(hotel_obj, "roomTypes")), EmptyList)
    IN IF ~Truthy(room_types) THEN [kind |-> "skip"]
       ELSE
       LET rts == room_types.items
           m == PyMin([i \in 1..Len(rts) |-> get_offer_amount(rts[i])])
       IN IF m.kind = "raise" THEN m
          ELSE
          LET best_room == rts[m.val]
              offer == OrElse(Get(Field(best_room, "offerRetailRate")), EmptyDict)
              total_price == Get(Field(offer, "amount"))
              curr == GetD(Field(offer, "currency"), currency)
              first_rate == OrElse(Get(Field(best_room, "rates")),
                                   PyList(<<EmptyDict>>)).items[1]
              refundable_tag ==
                  GetD(Field(OrElse(Get(Field(first_rate, "cancellationPolicies")),
                                    EmptyDict), "refundableTag"), EmptyStr)
              f == ToFloat(total_price)
          IN IF total_price = PyNone THEN [kind |-> "skip"]
             ELSE IF f.kind = "raise" THEN f
             ELSE [kind |-> "row",
                   row |-> HotelOption(0, hotel_id, name, star, address, f.val,
                                       curr, refundable_tag)]

RECURSIVE HotelRows_BreakOnSkip(_, _, _, _, _)
\* mutant: an unpriceable hotel ends the loop (break for continue)
HotelRows_BreakOnSkip(hotels_raw, hotels_meta, currency, i, rows) ==
    IF i > Len(hotels_raw) THEN Return(rows)
    ELSE LET r == NormalizeHotel(hotels_raw[i], hotels_meta, currency)
         IN CASE r.kind = "raise" -> r
              [] r.kind = "skip" -> Return(rows)
              [] r.kind = "row" ->
                    HotelRows_BreakOnSkip(hotels_raw, hotels_meta, currency, i + 1,
                                          Append(rows, r.row))

RECURSIVE HotelRows(_, _, _, _, _)
\* the loop over hotels_raw from position i on, rows being those appended so far
HotelRows(hotels_raw, hotels_meta, currency, i, rows) ==
    IF i > Len(hotels_raw) THEN Return(rows)
    ELSE LET r == NormalizeHotel(hotels_raw[i], hotels_meta, currency)
         IN CASE r.kind = "raise" -> r
              [] r.kind = "skip" ->
                    HotelRows(hotels_raw, hotels_meta, currency, i + 1, rows)
              [] r.kind = "row" ->
                    HotelRows(hotels_raw, hotels_meta, currency, i + 1,
                              Append(rows, r.row))

RECURSIVE InsertByPrice_BeforeEqual(_, _)
\* mutant: an unstable sort, a row going before the rows of its own price
InsertByPrice_BeforeEqual(sorted, row) ==
    IF Len(sorted) = 0 THEN <<row>>
    ELSE IF FloatLe(row.total_price, Head(sorted).total_price)
         THEN <<row>> \o sorted
         ELSE <<Head(sorted)>> \o InsertByPrice_BeforeEqual(Tail(sorted), row)

RECURSIVE InsertByPrice(_, _)
\* row put into the sorted sequence after every element that is not greater
InsertByPrice(sorted, row) ==
    IF Len(sorted) = 0 THEN <<row>>
    ELSE IF FloatLt(row.total_price, Head(sorted).total_price)
         THEN <<row>> \o sorted
         ELSE <<Head(sorted)>> \o InsertByPrice(Tail(sorted), row)

RECURSIVE SortRowsFrom(_, _, _)
SortRowsFrom(rows, i, sorted) ==
    IF i > Len(rows) THEN sorted
    ELSE SortRowsFrom(rows, i + 1, InsertByPrice(sorted, rows[i]))

\* rows.sort(key=lambda x: x.total_price): ascending and stable
SortByTotalPrice(rows) == SortRowsFrom(rows, 1, <<>>)

\* r.rank = i for i, r in enumerate(rows, start=1)
AssignRanks(rows) == [i \in 1..Len(rows) |-> [rows[i] EXCEPT !.rank = i]]

\* search_hotels_for_dates with the credential api_key, called with the
\* fallback currency, the provider call ending as http: [kind |-> "ok", body]
\* or [kind |-> f] for a transport failure f
search_hotels_for_dates(api_key, http, currency) ==
    IF ~Truthy(api_key) THEN Raise("RuntimeError")
    ELSE IF http.kind \in HotelTransportFailures THEN Return(<<>>)
    ELSE LET data == http.body
             hotels_raw == OrElse(Get(Field(data, "data")), EmptyList).items
             hotels_meta == OrElse(Get(Field(data, "hotels")), EmptyList).items
             rows == HotelRows(hotels_raw, hotels_meta, currency, 1, <<>>)
         IN IF rows.kind = "raise" THEN rows
            ELSE Return(AssignRanks(SortByTotalPrice(rows.val)))

(***************************************************************************)
(* app.py: fetch_rates, build_rows_from_rates                              *)
(***************************************************************************)
\* fetch_rates: the response body, or the exception of the credential check
\* or of the provider call, which nothing here catches
fetch_rates(api_key, http) ==
    IF ~Truthy(api_key) THEN Raise("RuntimeError")
    ELSE IF http.kind \in HotelTransportFailures THEN Raise(http.kind)
    ELSE Return(http.body)

RECURSIVE AppMetaLookupFrom(_, _, _)
\* hotel_meta_map.get(hotel_id, {}) of build_rows_from_rates: every metadata
\* entry is in the map under its id
AppMetaLookupFrom(hotels_meta, hotel_id, i) ==
    IF i = 0 THEN EmptyDict
    ELSE IF Get(Field(hotels_meta[i], "id")) = hotel_id THEN hotels_meta[i]
    ELSE AppMetaLookupFrom(hotels_meta, hotel_id, i - 1)

\* get_offer_amount of build_rows_from_rates: float(amount), +infinity when
\* that raises
app_get_offer_amount(rt) ==
    LET offer == OrElse(Get(Field(rt, "offerRetailRate")), EmptyDict)
        f == ToFloat(Get(Field(offer, "amount")))
    IN IF f.kind = "raise" THEN PyInf ELSE f.val

\* one iteration of the loop of build_rows_from_rates over data[:top_n]
BuildRow(idx, item, hotels_meta) ==
    LET hotel_id == Get(Field(item, "hotelId"))
        meta == AppMetaLookupFrom(hotels_meta, hotel_id, Len(hotels_meta))
        room_types == OrElse(Get(Field(item, "roomTypes")), EmptyList)
    IN IF ~Truthy(hotel_id) \/ ~Truthy(room_types) THEN [kind |-> "skip"]
       ELSE
       LET rts == room_types.items
           m == PyMin([i \in 1..Len(rts) |-> app_get_offer_amount(rts[i])])
           best_room == rts[m.val]
           offer == OrElse(Get(Field(best_room, "offerRetailRate")), EmptyDict)
           first_rate == OrElse(Get(Field(best_room, "rates")),
                                PyList(<<EmptyDict>>)).items[1]
       IN [kind |-> "row",
           row |-> [no |-> idx,
                    name |-> GetD(Field(meta, "name"), EmptyStr),
                    hotel_id |-> hotel_id,
                    address |-> GetD(Field(meta, "address"), EmptyStr),
                    rating |-> GetD(Field(meta, "rating"), EmptyStr),
                    price |-> Get(Field(offer, "amount")),
                    currency |-> Get(Field(offer, "currency")),
                    refundable |->
                        GetD(Field(OrElse(Get(Field(first_rate, "cancellationPolicies")),
                                          EmptyDict), "refundableTag"), EmptyStr)]]

RECURSIVE BuildRowsFrom(_, _, _, _, _)
BuildRowsFrom(data, hotels_meta, top_n, idx, rows) ==
    IF idx > Len(data) \/ idx > top_n THEN rows
    ELSE LET r == BuildRow(idx, data[idx], hotels_meta)
         IN BuildRowsFrom(data, hotels_meta, top_n, idx + 1,
                          IF r.kind = "row" THEN Append(rows, r.row) ELSE rows)

\* build_rows_from_rates(resp_json, top_n), top_n >= 0
build_rows_from_rates(resp_json, top_n) ==
    LET data == GetD(Field(resp_json, "data"), EmptyList)
        hotels_meta == GetD(Field(resp_json, "hotels"), EmptyList)
    IN IF hotels_meta.t # "list" \/ data.t # "list" THEN Raise("TypeError")
       ELSE Return(BuildRowsFrom(data.items, hotels_meta.items, top_n, 1, <<>>))

(***************************************************************************)
(* Price parsers.                                                          *)
(***************************************************************************)
DigitChar(d) ==
    CASE d = 0 -> "0" [] d = 1 -> "1" [] d = 2 -> "2" [] d = 3 -> "3"
      [] d = 4 -> "4" [] d = 5 -> "5" [] d = 6 -> "6" [] d = 7 -> "7"
      [] d = 8 -> "8" [] d = 9 -> "9"

RECURSIVE NatToStr(_)
NatToStr(n) ==
    IF n < 10 THEN <<DigitChar(n)>> ELSE Append(NatToStr(n \div 10), DigitChar(n % 10))

\* str(v) of None, an int or a string
ToStr(v) ==
    CASE v.t = "None" -> <<"N", "o", "n", "e">>
      [] v.t = "int" -> IF v.n < 0 THEN <<"-">> \o NatToStr(0 - v.n) ELSE NatToStr(v.n)
      [] v.t = "str" -> v.s

\* "".join(ch for ch in s if ch.isdigit() or ch == ".")
DigitsAndDots(s) == SelectSeq(s, LAMBDA ch : ch \in Digits \cup {"."})

\* mutant: the decimal point is dropped with the other signs
parse_price_to_float_DigitsOnly(price) ==
    IF price = PyNone THEN PyInf
    ELSE IF IsNumber(price) THEN AsFloat(price)
    ELSE LET digits == SelectSeq(ToStr(price), LAMBDA ch : ch \in Digits)
             f == StrToFloat(digits)
         IN IF Len(digits) = 0 THEN PyInf
            ELSE IF f.kind = "raise" THEN PyInf ELSE f.val

\* Hotel_flight.parse_price_to_float
parse_price_to_float(price) ==
    IF price = PyNone THEN PyInf
    ELSE IF IsNumber(price) THEN AsFloat(price)
    ELSE LET digits == DigitsAndDots(ToStr(price))
             f == StrToFloat(digits)
         IN IF Len(digits) = 0 THEN PyInf
            ELSE IF f.kind = "raise" THEN PyInf ELSE f.val

\* app._parse_price_value: None where parse_price_to_float gives +infinity,
\* and for every falsy input
parse_price_value(price_raw) ==
    IF ~Truthy(price_raw) THEN PyNone
    ELSE LET cleaned == DigitsAndDots(ToStr(price_raw))
             f == StrToFloat(cleaned)
         IN IF Len(cleaned) = 0 THEN PyNone
            ELSE IF f.kind = "raise" THEN PyNone ELSE f.val

(***************************************************************************)
(* Flights.  The collaborator get_flights ends as [kind |-> "raise", exc]  *)
(* or [kind |-> "return", val |-> result], result.flights being Missing,   *)
(* None or a list of itineraries [t |-> "obj", price, name, airline].      *)
(***************************************************************************)
FlightOption(depart, return_date, price_value, price_raw, airline) ==
    [depart_date |-> depart, return_date |-> return_date,
     price_value |-> price_value, price_raw |-> price_raw, airline |-> airline]

NA == PyStr(<<"N", "/", "A">>)

\* mutant: the first itinerary is reported, not the cheapest
search_flights_for_date_First(depart, trip, return_date, outcome) ==
    IF outcome.kind = "raise" THEN Return(PyNone)
    ELSE
    LET flights == GetD(Field(outcome.val, "flights"), PyNone)
    IN IF ~Truthy(flights) THEN Return(PyNone)
       ELSE
       LET cheapest == flights.items[1]
           price_raw == GetD(Field(cheapest, "price"), EmptyStr)
           airline == OrElse(GetD(Field(cheapest, "name"), EmptyStr),
                             GetD(Field(cheapest, "airline"), EmptyStr))
       IN Return(FlightOption(depart, return_date, parse_price_to_float(price_raw),
                              PyStr(ToStr(price_raw)), OrElse(airline, NA)))

\* Hotel_flight.search_flights_for_date, get_flights ending as outcome
search_flights_for_date(depart, trip, return_date, outcome) ==
    IF outcome.kind = "raise" THEN Return(PyNone)
    ELSE
    LET flights == GetD(Field(outcome.val, "flights"), PyNone)
    IN IF ~Truthy(flights) THEN Return(PyNone)
       ELSE
       LET fs == flights.items
           m == PyMin([i \in 1..Len(fs) |->
                          parse_price_to_float(GetD(Field(fs[i], "price"), PyNone))])
           cheapest == fs[m.val]
           price_raw == GetD(Field(cheapest, "price"), EmptyStr)
           airline == OrElse(GetD(Field(cheapest, "name"), EmptyStr),
                             GetD(Field(cheapest, "airline"), EmptyStr))
       IN Return(FlightOption(depart, return_date, parse_price_to_float(price_raw),
                              PyStr(ToStr(price_raw)), OrElse(airline, NA)))

\* app.find_cheapest_flight_for_dates, get_flights ending as outcome
find_cheapest_flight_for_dates(depart, ret_date, trip, outcome) ==
    IF trip = "round-trip" /\ ~Truthy(ret_date) THEN Raise("ValueError")
    ELSE IF outcome.kind = "raise" THEN outcome
    ELSE
    LET flights == OrElse(GetD(Field(outcome.val, "flights"), PyNone), EmptyList)
    IN IF ~Truthy(flights) THEN Return(PyNone)
       ELSE
       LET fs == flights.items
           price_num(f) ==
               LET val == parse_price_value(OrElse(GetD(Field(f, "price"), EmptyStr),
                                                   EmptyStr))
               IN IF val # PyNone THEN val ELSE PyInf
           m == PyMin([i \in 1..Len(fs) |-> price_num(fs[i])])
           best == fs[m.val]
           price_raw == OrElse(GetD(Field(best, "price"), EmptyStr), EmptyStr)
           airline == OrElse(OrElse(GetD(Field(best, "name"), EmptyStr),
                                    GetD(Field(best, "airline"), EmptyStr)), EmptyStr)
       IN \* "$" in price_raw raises for a price that is not a string
          IF price_raw.t # "str" THEN Raise("TypeError")
          ELSE Return([depart_date |-> depart,
                       return_date |-> IF trip = "round-trip" THEN ret_date ELSE PyNone,
                       airline |-> airline,
                       price_raw |-> price_raw,
                       price_value |-> parse_price_value(price_raw),
                       currency |-> IF CountOf(price_raw.s, "$") > 0
                                    THEN USD ELSE EmptyStr])

\* the request search_flights_for_date makes of get_flights: the legs, the
\* trip and the fetch mode
SearchFlightsRequest(depart, trip, return_date) ==
    [to |-> "get_flights",
     flight_data |-> IF trip = "round-trip" /\ return_date # PyNone
                     THEN <<depart, return_date>> ELSE <<depart>>,
     trip |-> IF trip = "round-trip" THEN "round-trip" ELSE "one-way",
     fetch_mode |-> "fallback"]

\* the requests search_flights_for_date makes of get_flights in one call,
\* however the request ends
SearchFlightsRequests(depart, trip, return_date, outcome) ==
    <<SearchFlightsRequest(depart, trip, return_date)>>

\* the requests app.find_cheapest_flight_for_dates makes of get_flights in
\* one call: none when a round trip has no return date
FlightForDatesRequests(depart, ret_date, trip, outcome) ==
    IF trip = "round-trip" /\ ~Truthy(ret_date) THEN <<>>
    ELSE <<[to |-> "get_flights",
            flight_data |-> IF trip = "round-trip"
                            THEN <<depart, ret_date>> ELSE <<depart>>,
            trip |-> trip,
            fetch_mode |-> "fallback"]>>

\* the requests search_hotels_for_dates and fetch_rates post to the rates
\* endpoint in one call: none without the credential
RatesRequests(api_key) ==
    IF ~Truthy(api_key) THEN <<>> ELSE <<[to |-> "hotels/rates"]>>

(***************************************************************************)
(* app.py, index: the flight price in KRW.                                 *)
(***************************************************************************)
USD_TO_KRW == 1480

\* int(x) of a finite float: truncation towards zero
IntOfFloat(x) ==
    IF x.num >= 0 THEN x.num \div x.den ELSE 0 - ((0 - x.num) \div x.den)

\* mutant: the rate is applied to every price, with or without "$"
flight_price_krw_AnyCurrency(mode, best_flight) ==
    IF best_flight = PyNone THEN PyNone
    ELSE IF best_flight.price_value = PyNone \/ best_flight.price_value.inf THEN PyNone
    ELSE PyInt(IntOfFloat(PyFloat(best_flight.price_value.num * USD_TO_KRW,
                                  best_flight.price_value.den)))

\* flight_price_krw as index computes it from best_flight, in the modes
\* flight_hotel_period and flight_hotel_month: None when there is no flight,
\* no price, or the conversion raises (float(None), int(inf))
flight_price_krw(mode, best_flight) ==
    IF best_flight = PyNone THEN PyNone
    ELSE IF mode = "flight_hotel_period" /\ best_flight.price_value = PyNone THEN PyNone
    ELSE
    LET raw == OrElse(GetD(Field(best_flight, "price_raw"), EmptyStr), EmptyStr)
        usd == \/ CountOf(raw.s, "$") > 0
               \/ GetD(Field(best_flight, "currency"), EmptyStr) = USD
        value == best_flight.price_value
    IN IF value = PyNone THEN PyNone
       ELSE IF value.inf THEN PyNone
       ELSE IF usd THEN PyInt(IntOfFloat(PyFloat(value.num * USD_TO_KRW, value.den)))
       ELSE PyInt(IntOfFloat(value))

(***************************************************************************)
(* Dates and the month scans.                                              *)
(***************************************************************************)
Date(y, m, d) == [t |-> "date", y |-> y, m |-> m, d |-> d]

IsLeap(y) == (y % 4 = 0 /\ y % 100 # 0) \/ y % 400 = 0

\* mutant: every fourth year a leap year
monthrange_EveryFourthYear(year, month) ==
    IF month = 2 THEN (IF year % 4 = 0 THEN 29 ELSE 28)
    ELSE IF month \in {4, 6, 9, 11} THEN 30 ELSE 31

\* calendar.monthrange(year, month)[1]
monthrange(year, month) ==
    IF month = 2 THEN (IF IsLeap(year) THEN 29 ELSE 28)
    ELSE IF month \in {4, 6, 9, 11} THEN 30 ELSE 31

RECURSIVE AddDays(_, _)
\* date + timedelta(days=n), n >= 0
AddDays(date, n) ==
    IF date.d + n <= monthrange(date.y, date.m) THEN Date(date.y, date.m, date.d + n)
    ELSE AddDays(IF date.m = 12 THEN Date(date.y + 1, 1, 1)
                 ELSE Date(date.y, date.m + 1, 1),
                 n - (monthrange(date.y, date.m) - date.d) - 1)

\* app.get_min_price_for_date_via_helper, hotels being what
\* search_hotels_for_dates ended with
get_min_price_for_date_via_helper(checkin, nights, hotels) ==
    IF hotels.kind = "raise" THEN hotels
    ELSE IF Len(hotels.val) = 0 THEN Return(PyNone)
    ELSE LET best == hotels.val[1]
         IN Return([t |-> "dict",
                    checkin |-> checkin,
                    checkout |-> AddDays(checkin, nights),
                    price |-> best.total_price,
                    currency |-> best.currency,
                    hotelName |-> best.name,
                    hotelId |-> best.hotel_id])

\* mutant: a day without option forgets the best so far
FlightMonthBest_ResetOnNone(best, option) ==
    IF option = PyNone THEN PyNone
    ELSE IF best = PyNone \/ FloatLt(option.price_value, best.price_value) THEN option
    ELSE best

\* mutant: <= for <, a later day of the same price replacing the best
FlightMonthBest_LastTie(best, option) ==
    IF option = PyNone THEN best
    ELSE IF best = PyNone \/ FloatLe(option.price_value, best.price_value) THEN option
    ELSE best

\* the body of the loop of find_cheapest_flight_in_month for one day:
\* the best option after it, option being what the day's search returned
FlightMonthBest(best, option) ==
    IF option = PyNone THEN best
    ELSE IF best = PyNone \/ FloatLt(option.price_value, best.price_value) THEN option
    ELSE best

\* the body of the loop of find_cheapest_hotel_in_month for one day:
\* daily_results after it, result being how the day's helper call ended
HotelMonthDaily(daily_results, result) ==
    IF result.kind = "raise" THEN daily_results
    ELSE IF Truthy(result.val) /\ result.val.price # PyNone
         THEN Append(daily_results, result.val)
         ELSE daily_results

\* mutant: only the cheapest day is handed back in the list
HotelMonthResult_CheapestOnly(daily_results) ==
    IF Len(daily_results) = 0 THEN <<PyNone, <<>>>>
    ELSE LET m == PyMin([i \in 1..Len(daily_results) |-> daily_results[i].price])
         IN <<daily_results[m.val], <<daily_results[m.val]>>>>

\* what find_cheapest_hotel_in_month returns after the loop
HotelMonthResult(daily_results) ==
    IF Len(daily_results) = 0 THEN <<PyNone, <<>>>>
    ELSE LET m == PyMin([i \in 1..Len(daily_results) |-> daily_results[i].price])
         IN <<daily_results[m.val], daily_results>>

(***************************************************************************)
(* The provider responses explored.                                        *)
(***************************************************************************)
H1 == PyStr(<<"h", "1">>)
H2 == PyStr(<<"h", "2">>)

Offer(amount, curr) == [t |-> "dict", amount |-> amount, currency |-> curr]
Room(offer) == [t |-> "dict", offerRetailRate |-> offer]
Hotel(id, room_types) == [t |-> "dict", hotelId |-> id, roomTypes |-> room_types]
Body(data) == [t |-> "dict", data |-> data]

\* room types: no offer, no amount key, a null amount, numbers (with a tie
\* in two currencies and one without currency), a non-numeric string and a
\* numeric string
RoomTypes ==
    {EmptyDict,
     Room(Offer(Missing, KRW)), Room(Offer(PyNone, KRW)),
     Room(Offer(PyInt(300), KRW)), Room(Offer(PyInt(300), USD)),
     Room(Offer(PyInt(500), USD)), Room(Offer(PyInt(500), Missing)),
     Room(Offer(PyStr(<<"a", "b", "c">>), KRW)),
     Room(Offer(PyStr(<<"1", "0", "0", "0">>), KRW))}

SeqsUpTo(S, n) == UNION {[1..k -> S] : k \in 0..n}

\* hotels with at most one room type, for the ranking
SimpleHotels ==
    {Hotel(id, PyList(r)) :
        id \in {H1, H2},
        r \in {<<>>, <<Room(Offer(PyInt(300), KRW))>>, <<Room(Offer(PyInt(500), KRW))>>}}
    \cup {Hotel(H1, Missing), Hotel(H1, PyList(<<Room(Offer(PyNone, KRW))>>)),
          Hotel(H1, PyList(<<Room(Offer(PyStr(<<"a", "b", "c">>), KRW))>>))}

\* one hotel with up to MaxRooms room types, alone or followed by a priced hotel
RoomHotels ==
    {<<Hotel(H1, PyList(rts))>> \o tail :
        rts \in SeqsUpTo(RoomTypes, MaxRooms) \ {<<>>},
        tail \in {<<>>, <<Hotel(H2, PyList(<<Room(Offer(PyInt(300), KRW))>>))>>}}

Main == PyStr(<<"M", "a", "i", "n">>)
Seoul == PyStr(<<"S", "e", "o", "u", "l">>)
KR == PyStr(<<"K", "R">>)

\* address fields: absent, null, strings, mappings with and without a street
\* line, a full mapping, and values that are neither string nor mapping
Addresses ==
    {Missing, PyNone, EmptyStr, Main,
     [t |-> "dict"],
     [t |-> "dict", line1 |-> Main, city |-> Seoul],
     [t |-> "dict", line1 |-> EmptyStr, city |-> Seoul],
     [t |-> "dict", city |-> Seoul, country |-> KR],
     [t |-> "dict", line1 |-> Main, line2 |-> PyStr(<<"2", "F">>), city |-> Seoul,
      state |-> PyStr(<<"S", "e">>), postalCode |-> PyStr(<<"0", "4">>),
      country |-> KR],
     PyInt(7), PyList(<<Main>>)}

\* a descriptive sub-record: name, star rating, address and location
Info(name, star, address, location) ==
    [t |-> "dict", name |-> name, starRating |-> star, address |-> address,
     location |-> location]

\* a metadata-array entry
Meta(id, name) ==
    [t |-> "dict", id |-> id, name |-> name, starRating |-> PyInt(5),
     address |-> [t |-> "dict", city |-> Seoul]]

\* inline hotel objects: absent, null, empty, and one for each address; one
\* with a location next to no address
InlineInfos ==
    {Missing, PyNone, EmptyDict}
    \cup {Info(PyStr(<<"A">>), PyInt(4), a, Missing) : a \in Addresses}
    \cup {Info(PyStr(<<"A">>), PyInt(4), Missing, [t |-> "dict", city |-> Seoul])}

\* metadata entries: of the record's id (two of them), of another id, with
\* an empty id and without id
MetaEntries ==
    {Meta(H1, PyStr(<<"B">>)), Meta(H1, PyStr(<<"F">>)), Meta(H2, PyStr(<<"C">>)),
     Meta(EmptyStr, PyStr(<<"D">>)), Meta(Missing, PyStr(<<"E">>))}

MaxMeta == 2

\* one priced hotel record, with or without id and inline object, and the
\* metadata array of the response: absent or of up to MaxMeta entries
DescribedHotel(id, info) ==
    [t |-> "dict", hotelId |-> id, hotel |-> info,
     roomTypes |-> PyList(<<Room(Offer(PyInt(300), KRW))>>)]

DescribedBodies ==
    {[t |-> "dict", data |-> PyList(<<DescribedHotel(id, info)>>), hotels |-> metas] :
        id \in {H1, Missing}, info \in InlineInfos,
        metas \in {Missing} \cup {PyList(ms) : ms \in SeqsUpTo(MetaEntries, MaxMeta)}}

HotelBodies ==
    {Body(PyList(d)) : d \in SeqsUpTo(SimpleHotels, MaxHotels) \cup RoomHotels}
    \cup {EmptyDict, Body(PyNone)}
    \cup DescribedBodies

HotelHttpOutcomes ==
    {[kind |-> f] : f \in HotelTransportFailures}
    \cup {[kind |-> "ok", body |-> b] : b \in HotelBodies}

\* raw prices of itineraries: no price attribute, None, numbers, strings with
\* a currency sign and separators, strings that spell no number, and a
\* price with a fraction and no currency sign
FlightPrices ==
    {Missing, PyNone, PyInt(0), PyInt(42),
     PyStr(<<"$", "1", ",", "0", "5", "0">>), PyStr(<<"$", "9", "0", ".", "5">>),
     PyStr(<<"a", "b", "c">>), PyStr(<<"1", ".", "2", ".", "3">>), EmptyStr,
     PyStr(<<"9", ".", "9", "9">>)}

KE == PyStr(<<"K", "E">>)
OZ == PyStr(<<"O", "Z">>)

Itinerary(price, name, airline) ==
    [t |-> "obj", price |-> price, name |-> name, airline |-> airline]

Itineraries ==
    {Itinerary(p, n[1], n[2]) :
        p \in FlightPrices, n \in {<<KE, Missing>>, <<EmptyStr, OZ>>}}
    \cup {Itinerary(PyStr(<<"$", "9", "0", ".", "5">>), Missing, Missing)}

FlightFailures == {"AuthError", "ConnectionError"}

FlightOutcomes ==
    {Raise(e) : e \in FlightFailures}
    \cup {Return([t |-> "obj"]), Return([t |-> "obj", flights |-> PyNone])}
    \cup {Return([t |-> "obj", flights |-> PyList(fs)]) :
             fs \in SeqsUpTo(Itineraries, MaxFlights)}

\* the dates a period search is called with, by trip
TripDates ==
    {[trip |-> "one-way", depart |-> Date(2025, 3, 1), ret |-> PyNone],
     [trip |-> "round-trip", depart |-> Date(2025, 3, 1), ret |-> Date(2025, 3, 4)],
     [trip |-> "round-trip", depart |-> Date(2025, 3, 1), ret |-> PyNone]}

TopNs == {1, 2, 10}

\* the characters of the raw prices explored: currency signs, separators, a
\* minus sign, the decimal point and digits
PriceChars == {"₩", "$", ",", "-", ".", "0", "1", "2"}

Won1234 == PyStr(<<"₩", "1", ",", "2", "3", "4">>)

\* the prices parse_price_to_float is called with: None, numbers (a negative
\* int and a negative float among them), every string of up to MaxPriceLen
\* characters, and longer ones
PriceInputs ==
    {PyNone, PyInt(0), PyInt(42), PyInt(-5), PyFloat(905, 10), PyFloat(-1, 2)}
    \cup {PyStr(cs) : cs \in SeqsUpTo(PriceChars, MaxPriceLen)}
    \cup {Won1234, PyStr(<<"a", "b", "c">>), PyStr(<<"$", "1", ",", "0", "5", "0">>),
          PyStr(<<"1", ".", "2", ".", "3">>), PyStr(<<"0", "0", "7", ".", "5", "0">>)}

(***************************************************************************)
(* The calls.                                                              *)
(***************************************************************************)
\* no call is running: the program is single-threaded and synchronous
Idle == op = "none"

\* the ways a hotel-rates request can end; without the credential the
\* request is not sent
Unsent == [kind |-> "unsent"]

HttpEnds(outcomes) == IF Truthy(LITEAPI_API_KEY) THEN outcomes ELSE {Unsent}

CallSearchHotels ==
    /\ Idle
    /\ \E http \in HttpEnds(HotelHttpOutcomes) :
          /\ op' = "search_hotels_for_dates"
          /\ arg' = [http |-> http, currency |-> KRW]
          /\ ret' = search_hotels_for_dates(LITEAPI_API_KEY, http, KRW)
    /\ sent' = RatesRequests(LITEAPI_API_KEY)
    /\ UNCHANGED <<LITEAPI_API_KEY, scan>>

CallFetchRates ==
    /\ Idle
    /\ \E http \in HttpEnds(HotelHttpOutcomes) :
          /\ op' = "fetch_rates"
          /\ arg' = [http |-> http]
          /\ ret' = fetch_rates(LITEAPI_API_KEY, http)
    /\ sent' = RatesRequests(LITEAPI_API_KEY)
    /\ UNCHANGED <<LITEAPI_API_KEY, scan>>

CallBuildRows ==
    /\ Idle
    /\ \E body \in HotelBodies, top_n \in TopNs :
          /\ op' = "build_rows_from_rates"
          /\ arg' = [body |-> body, top_n |-> top_n]
          /\ ret' = build_rows_from_rates(body, top_n)
    /\ UNCHANGED <<LITEAPI_API_KEY, scan, sent>>

CallSearchFlights ==
    /\ Idle
    /\ \E td \in TripDates, outcome \in FlightOutcomes :
          /\ op' = "search_flights_for_date"
          /\ arg' = [td |-> td, outcome |-> outcome]
          /\ ret' = search_flights_for_date(td.depart, td.trip, td.ret, outcome)
          /\ sent' = SearchFlightsRequests(td.depart, td.trip, td.ret, outcome)
    /\ UNCHANGED <<LITEAPI_API_KEY, scan>>

CallFlightForDates ==
    /\ Idle
    /\ \E td \in TripDates, outcome \in FlightOutcomes :
          /\ op' = "find_cheapest_flight_for_dates"
          /\ arg' = [td |-> td, outcome |-> outcome]
          /\ ret' = find_cheapest_flight_for_dates(td.depart, td.ret, td.trip, outcome)
          /\ sent' = FlightForDatesRequests(td.depart, td.ret, td.trip, outcome)
    /\ UNCHANGED <<LITEAPI_API_KEY, scan>>

CallParsePrice ==
    /\ Idle
    /\ \E price \in PriceInputs :
          /\ op' = "parse_price_to_float"
          /\ arg' = price
          /\ ret' = Return(parse_price_to_float(price))
    /\ UNCHANGED <<LITEAPI_API_KEY, scan, sent>>

\* the flights index converts: what the selector of the mode returned for a
\* one-way search
BestFlights(mode) ==
    LET depart == Date(2025, 3, 1)
    IN IF mode = "flight_hotel_month"
       THEN {search_flights_for_date(depart, "one-way", PyNone, o).val :
                o \in FlightOutcomes}
       ELSE {r.val : r \in {x \in {find_cheapest_flight_for_dates(
                                       depart, PyNone, "one-way", o) :
                                    o \in FlightOutcomes} : x.kind = "return"}}

\* index, from the selector's return to flight_price_krw
IndexFlightPrice ==
    /\ Idle
    /\ \E mode \in {"flight_hotel_period", "flight_hotel_month"} :
       \E best_flight \in BestFlights(mode) :
          /\ op' = "flight_price_krw"
          /\ arg' = [mode |-> mode, best_flight |-> best_flight]
          /\ ret' = Return(flight_price_krw(mode, best_flight))
    /\ UNCHANGED <<LITEAPI_API_KEY, scan, sent>>

\* the months scanned: every month of a common year and the February of a
\* leap year, of a century year and of a leap century year; and the stay
ScanMonths ==
    {<<2023, m>> : m \in 1..12} \cup {<<2024, 2>>, <<1900, 2>>, <<2000, 2>>}
ScanNights == 3

\* the days of a month, counted from the first, on which a search may end
\* otherwise than usually
EventDays == 6

\* whether the search of the day at hand may end otherwise than usually
EventsLeft == scan.events < MaxEvents /\ scan.day <= EventDays

PricedBody(amount) ==
    Body(PyList(<<Hotel(H1, PyList(<<Room(Offer(amount, KRW))>>))>>))

\* a day's hotel-rates request: the usual price, or one of the events a
\* timeout, an amount that is no number, a cheaper price
HotelDayUsual == [kind |-> "ok", body |-> PricedBody(PyInt(500))]
HotelDayEvents ==
    {[kind |-> "Timeout"],
     [kind |-> "ok", body |-> PricedBody(PyStr(<<"a", "b", "c">>))],
     [kind |-> "ok", body |-> PricedBody(PyInt(300))]}

OneFlight(price) ==
    Return([t |-> "obj", flights |-> PyList(<<Itinerary(price, KE, Missing)>>)])

\* a day's flight search: the usual price, or one of the events a failure
\* of the provider, a cheaper price
FlightDayUsual == OneFlight(PyStr(<<"$", "1", "0", "0">>))
FlightDayEvents ==
    {Raise("ConnectionError"),
     OneFlight(PyStr(<<"$", "9", "0", ".", "5">>))}

Running == [kind |-> "running"]

\* find_cheapest_flight_in_month up to the loop
StartFlightMonth ==
    /\ Idle
    /\ \E ym \in ScanMonths, trip \in {"one-way", "round-trip"} :
          /\ op' = "find_cheapest_flight_in_month"
          /\ arg' = [year |-> ym[1], month |-> ym[2], trip |-> trip,
                     stay_nights |-> ScanNights]
          /\ scan' = [days_in_month |-> monthrange(ym[1], ym[2]), day |-> 1,
                      best |-> PyNone, prices |-> <<>>, events |-> 0,
                      searches |-> <<>>]
    /\ ret' = Running
    /\ sent' = <<>>
    /\ UNCHANGED LITEAPI_API_KEY

\* one iteration of its loop; prices keeps the price_value of what each
\* day's search returned, None for no option, and searches the dates each
\* day's search was called with
FlightMonthDay ==
    /\ op = "find_cheapest_flight_in_month"
    /\ ret = Running
    /\ scan.day <= scan.days_in_month
    /\ \E outcome \in {FlightDayUsual} \cup
                      (IF EventsLeft THEN FlightDayEvents ELSE {}) :
          LET depart == Date(arg.year, arg.month, scan.day)
              return_d == IF arg.trip = "round-trip"
                          THEN AddDays(depart, arg.stay_nights) ELSE PyNone
              option == search_flights_for_date(depart, arg.trip, return_d, outcome).val
          IN /\ scan' = [scan EXCEPT
                            !.day = @ + 1,
                            !.best = FlightMonthBest(@, option),
                            !.prices = Append(@, IF option = PyNone THEN PyNone
                                                    ELSE option.price_value),
                            !.events = IF outcome = FlightDayUsual THEN @ ELSE @ + 1,
                            !.searches = Append(@, [depart |-> depart,
                                                    return_date |-> return_d])]
             /\ sent' = sent \o SearchFlightsRequests(depart, arg.trip, return_d, outcome)
    /\ UNCHANGED <<LITEAPI_API_KEY, op, arg, ret>>

FlightMonthReturn ==
    /\ op = "find_cheapest_flight_in_month"
    /\ ret = Running
    /\ scan.day > scan.days_in_month
    /\ ret' = Return(scan.best)
    /\ UNCHANGED <<LITEAPI_API_KEY, op, arg, scan, sent>>

\* find_cheapest_hotel_in_month up to the loop
StartHotelMonth ==
    /\ Idle
    /\ \E ym \in ScanMonths :
          /\ op' = "find_cheapest_hotel_in_month"
          /\ arg' = [year |-> ym[1], month |-> ym[2], nights |-> ScanNights,
                     currency |-> KRW]
          /\ scan' = [days_in_month |-> monthrange(ym[1], ym[2]), day |-> 1,
                      daily_results |-> <<>>, skipped |-> {}, events |-> 0,
                      searches |-> <<>>]
    /\ ret' = Running
    /\ sent' = <<>>
    /\ UNCHANGED LITEAPI_API_KEY

\* one iteration of its loop; skipped keeps the days whose helper call
\* raised or returned None, and searches the dates each day's helper call
\* was made with
HotelMonthDay ==
    /\ op = "find_cheapest_hotel_in_month"
    /\ ret = Running
    /\ scan.day <= scan.days_in_month
    /\ \E http \in HttpEnds({HotelDayUsual} \cup
                            (IF EventsLeft THEN HotelDayEvents ELSE {})) :
       \E hotels \in {search_hotels_for_dates(LITEAPI_API_KEY, http, arg.currency)} :
       \E result \in {get_min_price_for_date_via_helper(
                          Date(arg.year, arg.month, scan.day), arg.nights, hotels)} :
          /\ scan' = [scan EXCEPT
                         !.day = @ + 1,
                         !.daily_results = HotelMonthDaily(@, result),
                         !.skipped = IF result.kind = "raise" \/ result.val = PyNone
                                     THEN @ \cup {scan.day} ELSE @,
                         !.events = IF http \in HotelDayEvents THEN @ + 1 ELSE @,
                         !.searches = Append(@, [checkin |-> Date(arg.year, arg.month,
                                                                  scan.day),
                                                 nights |-> arg.nights])]
          /\ sent' = sent \o RatesRequests(LITEAPI_API_KEY)
    /\ UNCHANGED <<LITEAPI_API_KEY, op, arg, ret>>

HotelMonthReturn ==
    /\ op = "find_cheapest_hotel_in_month"
    /\ ret = Running
    /\ scan.day > scan.days_in_month
    /\ ret' = Return(HotelMonthResult(scan.daily_results))
    /\ UNCHANGED <<LITEAPI_API_KEY, op, arg, scan, sent>>

(***************************************************************************)
(* The web handlers: the access-key gate and index, of app.py and of       *)
(* hoongora-travel/app.py.  A request is its method, the keys it presents  *)
(* and its form; ACCESS_KEY is read from the environment once, at import.  *)
(***************************************************************************)
\* mutant: a POST without any key passes
require_access_key_MissingPasses(ACCESS_KEY, method, keys) ==
    IF ~Truthy(ACCESS_KEY) THEN TRUE
    ELSE IF method = "GET" THEN TRUE
    ELSE LET provided == OrElse(OrElse(Get(Field(keys, "args")),
                                       Get(Field(keys, "form"))),
                                Get(Field(keys, "header")))
         IN provided = ACCESS_KEY \/ provided = PyNone

\* app._require_access_key: whether the request passes the gate; keys holds
\* what the query string, the form and the X-Access-Key header present
require_access_key(ACCESS_KEY, method, keys) ==
    IF ~Truthy(ACCESS_KEY) THEN TRUE
    ELSE IF method = "GET" THEN TRUE
    ELSE LET provided == OrElse(OrElse(Get(Field(keys, "args")),
                                       Get(Field(keys, "form"))),
                                Get(Field(keys, "header")))
         IN provided = ACCESS_KEY

\* hoongora-travel/app._require_access_key: the key of the query string is
\* required of every request
hoongora_require_access_key(ACCESS_KEY, method, keys) ==
    IF ~Truthy(ACCESS_KEY) THEN TRUE
    ELSE Get(Field(keys, "args")) = ACCESS_KEY

\* int(v) of an int or of a string without blanks: ValueError when the
\* string is no signed decimal numeral
py_int(v) ==
    IF v.t = "int" THEN Return(v.n)
    ELSE LET s == v.s
             body == IF Len(s) > 0 /\ Head(s) \in {"-", "+"} THEN Tail(s) ELSE s
         IN IF Len(body) > 0 /\ \A i \in 1..Len(body) : body[i] \in Digits
            THEN Return(IF Head(s) = "-" THEN 0 - DigitsValue(body, 0)
                        ELSE DigitsValue(body, 0))
            ELSE Raise("ValueError")

\* _to_int of index in app.py
to_int(v, default) ==
    LET r == py_int(v) IN IF r.kind = "raise" THEN default ELSE r.val

\* date.fromisoformat of a string: YYYY-MM-DD naming a day of the calendar
fromisoformat(v) ==
    LET s == v.s
        num(a, b) == DigitsValue(SubSeq(s, a, b), 0)
    IN IF /\ Len(s) = 10
          /\ s[5] = "-" /\ s[8] = "-"
          /\ \A i \in (1..10) \ {5, 8} : s[i] \in Digits
          /\ num(1, 4) >= 1
          /\ num(6, 7) \in 1..12
          /\ num(9, 10) \in 1..monthrange(num(1, 4), num(6, 7))
       THEN Return(Date(num(1, 4), num(6, 7), num(9, 10)))
       ELSE Raise("ValueError")

\* mutant: the stay is asked for twice
StayRequests_Twice(api_key, checkin, checkout) ==
    IF ~Truthy(api_key) THEN <<>>
    ELSE <<[to |-> "hotels/rates", checkin |-> checkin, checkout |-> checkout],
           [to |-> "hotels/rates", checkin |-> checkin, checkout |-> checkout]>>

\* the request search_hotels_for_dates posts for a stay: none without the
\* credential
StayRequests(api_key, checkin, checkout) ==
    IF ~Truthy(api_key) THEN <<>>
    ELSE <<[to |-> "hotels/rates", checkin |-> checkin, checkout |-> checkout]>>

RECURSIVE FlightMonthFrom(_, _, _, _, _, _, _, _)
\* the loop of find_cheapest_flight_in_month from day on, flights[d] being
\* how get_flights ends on day d: the best option and the requests made
FlightMonthFrom(year, month, trip, stay_nights, flights, day, best, requests) ==
    IF day > monthrange(year, month) THEN [out |-> Return(best), sent |-> requests]
    ELSE LET depart == Date(year, month, day)
             return_d == IF trip = "round-trip"
                         THEN AddDays(depart, stay_nights) ELSE PyNone
         IN CHOOSE r \in
               {FlightMonthFrom(year, month, trip, stay_nights, flights, day + 1, b, q) :
                   b \in {FlightMonthBest(best, option) :
                             option \in {search_flights_for_date(
                                             depart, trip, return_d, flights[day]).val}},
                   q \in {requests \o SearchFlightsRequests(depart, trip, return_d,
                                                            flights[day])}} : TRUE

\* Hotel_flight.find_cheapest_flight_in_month called by index: monthrange
\* raises for a month outside 1..12 and date for a year outside 1..9999
find_cheapest_flight_in_month(year, month, trip, stay_nights, flights) ==
    IF month \notin 1..12 THEN [out |-> Raise("IllegalMonthError"), sent |-> <<>>]
    ELSE IF year \notin 1..9999 THEN [out |-> Raise("ValueError"), sent |-> <<>>]
    ELSE FlightMonthFrom(year, month, trip, stay_nights, flights, 1, PyNone, <<>>)

RECURSIVE HotelMonthFrom(_, _, _, _, _, _, _, _)
\* the loop of find_cheapest_hotel_in_month from day on, hotels being how
\* every day's search_hotels_for_dates ends
HotelMonthFrom(api_key, year, month, nights, hotels, day, daily_results, requests) ==
    IF day > monthrange(year, month)
    THEN [out |-> Return(HotelMonthResult(daily_results)), sent |-> requests]
    ELSE LET checkin == Date(year, month, day)
         IN CHOOSE r \in
               {HotelMonthFrom(api_key, year, month, nights, hotels, day + 1, d, q) :
                   d \in {HotelMonthDaily(daily_results, result) :
                             result \in {get_min_price_for_date_via_helper(
                                             checkin, nights, hotels)}},
                   q \in {requests \o StayRequests(api_key, checkin,
                                                   AddDays(checkin, nights))}} : TRUE

\* app.find_cheapest_hotel_in_month called by index
find_cheapest_hotel_in_month(api_key, year, month, nights, hotels) ==
    IF month \notin 1..12 THEN [out |-> Raise("IllegalMonthError"), sent |-> <<>>]
    ELSE IF year \notin 1..9999 THEN [out |-> Raise("ValueError"), sent |-> <<>>]
    ELSE HotelMonthFrom(api_key, year, month, nights, hotels, 1, <<>>, <<>>)

\* xs[:n]
SliceTo(xs, n) ==
    IF n >= 0 THEN SubSeq(xs, 1, IF n < Len(xs) THEN n ELSE Len(xs))
    ELSE SubSeq(xs, 1, IF Len(xs) + n > 0 THEN Len(xs) + n ELSE 0)

\* a + b of two floats
FloatAdd(a, b) ==
    IF a.inf \/ b.inf THEN PyInf
    ELSE PyFloat(a.num * b.den + b.num * a.den, a.den * b.den)

\* the locals index renders, as they are before the request is looked at
Page ==
    [error |-> PyNone, best_flight |-> PyNone, flight_price_krw |-> PyNone,
     fh_hotels |-> <<>>, combo_hotel |-> PyNone, combined_total |-> PyNone,
     period_rows |-> <<>>, hotel_cheapest |-> PyNone, monthly_results |-> <<>>]

\* error as the except clause of index sets it for the exception exc
Error(exc) == [t |-> "error", type |-> exc]

\* index of app.py from the hotel search of a flight+hotel mode to the end
\* of the try block: hotels is how search_hotels_for_dates ended
ComboHotel(page, hotels, fh_top_n) ==
    IF hotels.kind = "raise" THEN [page EXCEPT !.error = Error(hotels.exc)]
    ELSE IF Len(hotels.val) = 0 THEN page
    ELSE LET top == SliceTo(hotels.val, fh_top_n)
         IN IF Len(top) = 0
            THEN [page EXCEPT !.fh_hotels = top, !.error = Error("IndexError")]
            ELSE [page EXCEPT
                     !.fh_hotels = top,
                     !.combo_hotel = top[1],
                     !.combined_total =
                         IF page.flight_price_krw = PyNone THEN PyNone
                         ELSE IF top[1].total_price.inf THEN PyNone
                         ELSE PyInt(page.flight_price_krw.n
                                    + IntOfFloat(top[1].total_price))]

\* the same of hoongora-travel/app.py: the sum is one of floats
HoongoraComboHotel(page, hotels, fh_top_n) ==
    IF hotels.kind = "raise" THEN [page EXCEPT !.error = Error(hotels.exc)]
    ELSE IF Len(hotels.val) = 0 THEN page
    ELSE LET top == SliceTo(hotels.val, fh_top_n)
         IN IF Len(top) = 0
            THEN [page EXCEPT !.fh_hotels = top, !.error = Error("IndexError")]
            ELSE [page EXCEPT
                     !.fh_hotels = top,
                     !.combo_hotel = top[1],
                     !.combined_total =
                         IF page.best_flight.price_value = PyNone THEN PyNone
                         ELSE FloatAdd(page.best_flight.price_value,
                                       top[1].total_price)]

\* the form fields of index and their defaults
FormDefaults ==
    [mode |-> "flight_hotel_month", trip |-> "round-trip",
     checkin |-> PyStr(<<"2", "0", "2", "6", "-", "0", "1", "-", "0", "1">>),
     checkout |-> PyStr(<<"2", "0", "2", "6", "-", "0", "1", "-", "0", "5">>),
     top_n |-> PyInt(10), year |-> PyInt(2026), month |-> PyInt(1),
     nights |-> PyInt(3), fh_top_n |-> PyInt(10)]

\* form.get(k, default)
FormGet(form, k) == IF k \in DOMAIN form THEN form[k] ELSE FormDefaults[k]

AtLeast(n, low) == IF n < low THEN low ELSE n

\* the try block of index for the values f of the form, the provider
\* calls ending as env says, env.hotels being how search_hotels_for_dates
\* ends when it is called: the page and the requests made.  In
\* flight_hotel_month the hotels are searched when the scan gave a flight.
Search(app, f, api_key, env) ==
    LET ci == fromisoformat(f.checkin)
        co == fromisoformat(f.checkout)
        failed(exc, requests) ==
            [page |-> [Page EXCEPT !.error = Error(exc)], sent |-> requests]
    IN
    CASE f.mode = "hotel_period" ->
            IF ci.kind = "raise" THEN failed(ci.exc, <<>>)
            ELSE IF co.kind = "raise" THEN failed(co.exc, <<>>)
            ELSE LET resp_json == fetch_rates(api_key, env.http)
                     requests == StayRequests(api_key, ci.val, co.val)
                 IN IF resp_json.kind = "raise" THEN failed(resp_json.exc, requests)
                    ELSE LET rows == build_rows_from_rates(resp_json.val, f.top_n)
                         IN IF rows.kind = "raise" THEN failed(rows.exc, requests)
                            ELSE [page |-> [Page EXCEPT !.period_rows = rows.val],
                                  sent |-> requests]
      [] f.mode = "hotel_month" ->
            CHOOSE done \in
               {IF r.out.kind = "raise" THEN failed(r.out.exc, r.sent)
                ELSE [page |-> [Page EXCEPT !.hotel_cheapest = r.out.val[1],
                                            !.monthly_results = r.out.val[2]],
                      sent |-> r.sent] :
                   r \in {find_cheapest_hotel_in_month(api_key, f.year, f.month,
                                                       f.nights, env.hotels)}} : TRUE
      [] f.mode = "flight_hotel_period" /\ app = "app" ->
            IF ci.kind = "raise" THEN failed(ci.exc, <<>>)
            ELSE IF co.kind = "raise" THEN failed(co.exc, <<>>)
            ELSE LET ret_date == IF f.trip = "round-trip" THEN co.val ELSE PyNone
                     asked == FlightForDatesRequests(ci.val, ret_date, f.trip,
                                                     env.flights[1])
                 IN CHOOSE done \in
                       {IF best_flight.kind = "raise" THEN failed(best_flight.exc, asked)
                        ELSE [page |->
                                 ComboHotel(
                                     [Page EXCEPT
                                         !.best_flight = best_flight.val,
                                         !.flight_price_krw =
                                             flight_price_krw(f.mode, best_flight.val)],
                                     env.hotels, f.fh_top_n),
                              sent |-> asked \o StayRequests(api_key, ci.val, co.val)] :
                           best_flight \in {find_cheapest_flight_for_dates(
                                               ci.val, ret_date, f.trip,
                                               env.flights[1])}} : TRUE
      [] f.mode = "flight_hotel_month" ->
            CHOOSE done \in
               {IF r.out.kind = "raise" THEN failed(r.out.exc, r.sent)
                ELSE IF r.out.val = PyNone THEN [page |-> Page, sent |-> r.sent]
                ELSE LET best_flight == r.out.val
                         ci_f == best_flight.depart_date
                         co_f == IF Truthy(best_flight.return_date)
                                 THEN best_flight.return_date
                                 ELSE AddDays(ci_f, f.nights)
                     IN [page |->
                            IF app = "app"
                            THEN ComboHotel(
                                     [Page EXCEPT
                                         !.best_flight = best_flight,
                                         !.flight_price_krw =
                                             flight_price_krw(f.mode, best_flight)],
                                     env.hotels, f.fh_top_n)
                            ELSE HoongoraComboHotel(
                                     [Page EXCEPT !.best_flight = best_flight],
                                     env.hotels, f.fh_top_n),
                         sent |-> r.sent \o StayRequests(api_key, ci_f, co_f)] :
                   r \in {find_cheapest_flight_in_month(f.year, f.month, f.trip,
                                                        f.nights, env.flights)}} : TRUE
      [] OTHER -> [page |-> Page, sent |-> <<>>]

IntFields == {"top_n", "year", "month", "nights", "fh_top_n"}

\* the values index of app.py works with: _to_int for the numbers, then
\* the range guards of month, nights and top_n
FormValues(form) ==
    LET n(k) == to_int(FormGet(form, k), FormDefaults[k].n)
    IN [mode |-> FormGet(form, "mode"), trip |-> FormGet(form, "trip"),
        checkin |-> FormGet(form, "checkin"), checkout |-> FormGet(form, "checkout"),
        top_n |-> AtLeast(n("top_n"), 1), year |-> n("year"),
        month |-> IF n("month") > 12 THEN 12 ELSE AtLeast(n("month"), 1),
        nights |-> AtLeast(n("nights"), 1), fh_top_n |-> n("fh_top_n")]

\* the same of hoongora-travel/app.py: int() of every number, no guard
HoongoraFormValues(form) ==
    LET n(k) == py_int(FormGet(form, k)).val
    IN [mode |-> FormGet(form, "mode"), trip |-> FormGet(form, "trip"),
        checkin |-> FormGet(form, "checkin"), checkout |-> FormGet(form, "checkout"),
        top_n |-> n("top_n"), year |-> n("year"), month |-> n("month"),
        nights |-> n("nights"), fh_top_n |-> n("fh_top_n")]

Abort(status) == [kind |-> "abort", status |-> status]

\* a request to app.py (app = "app") or to hoongora-travel/app.py
\* (app = "hoongora"): the gate, then index.  In hoongora-travel/app.py
\* int() of the form's numbers is outside the try block.
index(app, ACCESS_KEY, api_key, req, env) ==
    IF ~(IF app = "app" THEN require_access_key(ACCESS_KEY, req.method, req.keys)
         ELSE hoongora_require_access_key(ACCESS_KEY, req.method, req.keys))
    THEN [out |-> Abort(403), sent |-> <<>>]
    ELSE IF req.method # "POST" THEN [out |-> Return(Page), sent |-> <<>>]
    ELSE IF app = "hoongora"
            /\ \E k \in IntFields : py_int(FormGet(req.form, k)).kind = "raise"
    THEN [out |-> Raise("ValueError"), sent |-> <<>>]
    ELSE CHOOSE done \in
            {[out |-> Return(r.page), sent |-> r.sent] :
                r \in {Search(app, IF app = "app" THEN FormValues(req.form)
                                   ELSE HoongoraFormValues(req.form),
                              api_key, env)}} : TRUE

\* the shared secret and a key that is not it
Secret == PyStr(<<"s">>)
Wrong == PyStr(<<"x">>)

Keys(args, form, header) ==
    [t |-> "keys", args |-> args, form |-> form, header |-> header]

\* what ACCESS_KEY is and the keys a request presents: no secret configured
\* (unset or empty), and with a secret no key, the secret in the query
\* string, in the form or in the header, another key, and another or an
\* empty key in the query string with the secret elsewhere
Credentials ==
    {[ACCESS_KEY |-> PyNone, keys |-> Keys(Missing, Missing, Missing)],
     [ACCESS_KEY |-> PyNone, keys |-> Keys(Wrong, Missing, Missing)],
     [ACCESS_KEY |-> EmptyStr, keys |-> Keys(Missing, Missing, Missing)]}
    \cup {[ACCESS_KEY |-> Secret, keys |-> k] :
             k \in {Keys(Missing, Missing, Missing), Keys(Secret, Missing, Missing),
                    Keys(Missing, Secret, Missing), Keys(Missing, Missing, Secret),
                    Keys(Wrong, Missing, Missing), Keys(Wrong, Secret, Missing),
                    Keys(EmptyStr, Missing, Secret)}}

\* the methods the route of index admits; HEAD comes with GET
Methods == {"GET", "HEAD", "POST"}

NoForm == [t |-> "form"]

\* the forms posted: every mode and an unknown one with the other fields
\* absent; for the flight+hotel modes fh_top_n positive, zero, negative and
\* no number, and a one-way trip; for the month modes nights, month and
\* year out of range or no number; for the period modes a malformed date
\* and a day that is not in the calendar, and top_n zero
Forms ==
    {NoForm}
    \cup {[t |-> "form", mode |-> m] :
             m \in {"flight_hotel_period", "hotel_period", "hotel_month", "zzz"}}
    \cup {[t |-> "form", mode |-> m, fh_top_n |-> PyStr(n)] :
             m \in {"flight_hotel_period", "flight_hotel_month"},
             n \in {<<"1">>, <<"2">>, <<"0">>, <<"-", "1">>, <<"a", "b", "c">>}}
    \cup {[t |-> "form", mode |-> m, trip |-> "one-way"] :
             m \in {"flight_hotel_period", "flight_hotel_month"}}
    \cup {[t |-> "form", nights |-> PyStr(n)] : n \in {<<"0">>, <<"2", ".", "5">>}}
    \cup {[t |-> "form", mode |-> m, month |-> PyStr(n)] :
             m \in {"flight_hotel_month", "hotel_month"},
             n \in {<<"1", "3">>, <<"0">>, <<"x">>}}
    \cup {[t |-> "form", mode |-> m, year |-> PyStr(<<"0">>)] :
             m \in {"flight_hotel_month", "hotel_month"}}
    \cup {[t |-> "form", mode |-> m, checkin |-> PyStr(d)] :
             m \in {"flight_hotel_period", "hotel_period"},
             d \in {<<"b", "a", "d">>,
                    <<"2", "0", "2", "6", "-", "0", "2", "-", "3", "0">>}}
    \cup {[t |-> "form", mode |-> "hotel_period", top_n |-> PyStr(<<"0">>)]}

\* the forms posted to hoongora-travel/app.py: the modes whose helpers are
\* the ones of Hotel_flight.py
HoongoraForms ==
    {f \in Forms : FormGet(f, "mode") \notin {"hotel_period", "hotel_month"}}

ThreeHotels ==
    Body(PyList(<<Hotel(H1, PyList(<<Room(Offer(PyInt(500), KRW))>>)),
                  Hotel(H2, PyList(<<Room(Offer(PyInt(300), KRW))>>)),
                  Hotel(Secret, PyList(<<Room(Offer(PyInt(400), KRW))>>))>>))

\* how get_flights ends on the days of a month: the usual price every day,
\* a failure every day, a cheaper price on the third day, a price that is
\* no number every day
FlightMonths ==
    {[d \in 1..31 |-> FlightDayUsual],
     [d \in 1..31 |-> Raise("ConnectionError")],
     [d \in 1..31 |-> IF d = 3 THEN OneFlight(PyStr(<<"$", "9", "0", ".", "5">>))
                      ELSE FlightDayUsual],
     [d \in 1..31 |-> OneFlight(PyStr(<<"a", "b", "c">>))]}

\* a hotel as search_hotels_for_dates returns it for a priced record that
\* has no description
FoundHotel(rank, id, amount) ==
    HotelOption(rank, id, EmptyStr, PyNone, EmptyStr, PyFloat(amount, 1), KRW, EmptyStr)

\* how the hotel-rates request of a stay ends and what search_hotels_for_dates
\* makes of it: a timeout, no hotel, one hotel, three hotels ranked by price;
\* without the credential it raises and no request is sent
HotelEnds ==
    IF ~Truthy(LITEAPI_API_KEY) THEN {[http |-> Unsent, hotels |-> Raise("RuntimeError")]}
    ELSE {[http |-> [kind |-> "Timeout"], hotels |-> Return(<<>>)],
          [http |-> [kind |-> "ok", body |-> Body(EmptyList)], hotels |-> Return(<<>>)],
          [http |-> [kind |-> "ok", body |-> PricedBody(PyInt(300))],
           hotels |-> Return(<<FoundHotel(1, H1, 300)>>)],
          [http |-> [kind |-> "ok", body |-> ThreeHotels],
           hotels |-> Return(<<FoundHotel(1, H2, 300), FoundHotel(2, Secret, 400),
                               FoundHotel(3, H1, 500)>>)]}

\* how the provider calls of a request end: the flight searches of the
\* days, the hotel-rates requests and the hotel searches
Envs ==
    {[flights |-> fl, http |-> h.http, hotels |-> h.hotels] :
        fl \in FlightMonths,
        h \in {e \in HotelEnds : e.http \in {Unsent, [kind |-> "ok", body |-> ThreeHotels]}}}
    \cup {[flights |-> [d \in 1..31 |-> FlightDayUsual],
           http |-> h.http, hotels |-> h.hotels] : h \in HotelEnds}

\* a request to app.py or to hoongora-travel/app.py
CallIndex ==
    /\ Idle
    /\ \E app \in {"app", "hoongora"}, cred \in Credentials, method \in Methods,
          env \in Envs :
       \E form \in IF method # "POST" THEN {NoForm}
                    ELSE IF app = "app" THEN Forms ELSE HoongoraForms :
       \E req \in {[method |-> method, keys |-> cred.keys, form |-> form]} :
       \E r \in {index(app, cred.ACCESS_KEY, LITEAPI_API_KEY, req, env)} :
          /\ op' = "index"
          /\ arg' = [app |-> app, ACCESS_KEY |-> cred.ACCESS_KEY, req |-> req,
                     env |-> env]
          /\ ret' = r.out
          /\ sent' = r.sent
    /\ UNCHANGED <<LITEAPI_API_KEY, scan>>

\* the caller has taken the result; no state is kept between calls
Finish ==
    /\ op # "none"
    /\ ret # Running
    /\ op' = "none"
    /\ arg' = PyNone
    /\ ret' = Return(PyNone)
    /\ scan' = PyNone
    /\ sent' = <<>>
    /\ UNCHANGED LITEAPI_API_KEY

Init ==
    /\ LITEAPI_API_KEY \in {PyNone, PyStr(<<"k">>)}
    /\ op = "none"
    /\ arg = PyNone
    /\ ret = Return(PyNone)
    /\ scan = PyNone
    /\ sent = <<>>

Next ==
    \/ CallSearchHotels
    \/ CallFetchRates
    \/ CallBuildRows
    \/ CallSearchFlights
    \/ CallFlightForDates
    \/ CallParsePrice
    \/ IndexFlightPrice
    \/ CallIndex
    \/ StartFlightMonth
    \/ FlightMonthDay
    \/ FlightMonthReturn
    \/ StartHotelMonth
    \/ HotelMonthDay
    \/ HotelMonthReturn
    \/ Finish

Spec == Init /\ [][Next]_vars

\* the month scans on their own
ScanNext ==
    \/ StartFlightMonth
    \/ FlightMonthDay
    \/ FlightMonthReturn
    \/ StartHotelMonth
    \/ HotelMonthDay
    \/ HotelMonthReturn
    \/ Finish

\* a month scan is in its for loop / has left the loop and not yet returned
ScanLooping ==
    /\ op \in {"find_cheapest_flight_in_month", "find_cheapest_hotel_in_month"}
    /\ ret = Running
    /\ scan.day <= scan.days_in_month
ScanLeftLoop ==
    /\ op \in {"find_cheapest_flight_in_month", "find_cheapest_hotel_in_month"}
    /\ ret = Running
    /\ scan.day > scan.days_in_month

\* a month scan is one sequential loop: once called, the body of the for
\* loop and then the return statement are executed one after another, and
\* every search it calls comes back (with a result, an error or a timeout).
\* This is weak fairness of the loop body and of the return, WF_vars(A) as
\* []<>~ENABLED <<A>>_vars \/ []<><<A>>_vars, with the guard of the action
\* written for ENABLED <<A>>_vars.
ScanFairness ==
    /\ ([]<>~ScanLooping \/ []<><<FlightMonthDay \/ HotelMonthDay>>_vars)
    /\ ([]<>~ScanLeftLoop \/ []<><<FlightMonthReturn \/ HotelMonthReturn>>_vars)

ScanSpec == Init /\ [][ScanNext]_vars /\ ScanFairness

(***************************************************************************)
(* Properties.                                                             *)
(***************************************************************************)
\* the hotel records of the response a hotel call was given
DataOf(body) == OrElse(Get(Field(body, "data")), EmptyList).items

RecordId(h) == OrElse(Get(Field(h, "hotelId")), EmptyStr)

RoomsOf(h) == OrElse(Get(Field(h, "roomTypes")), EmptyList).items

AmountOf(rt) == Field(OrElse(Get(Field(rt, "offerRetailRate")), EmptyDict), "amount")

CurrencyOf(rt) == Field(OrElse(Get(Field(rt, "offerRetailRate")), EmptyDict), "currency")

\* an amount that is a number, or a string that spells one
NumericAmount(a) ==
    \/ a.t = "int"
    \/ a.t = "str" /\ StrToFloat(a.s).kind = "return"

\* a hotel record that can be priced: a room type with a numeric amount
Priceable(h) == \E i \in 1..Len(RoomsOf(h)) : NumericAmount(AmountOf(RoomsOf(h)[i]))

\* a hotel record whose room types all carry a number as amount
AllNumbers(h) ==
    /\ Len(RoomsOf(h)) > 0
    /\ \A i \in 1..Len(RoomsOf(h)) : AmountOf(RoomsOf(h)[i]).t = "int"

MinAmount(h) ==
    LET amounts == {AmountOf(RoomsOf(h)[i]).n : i \in 1..Len(RoomsOf(h))}
    IN CHOOSE n \in amounts : \A k \in amounts : n <= k

\* the currencies of the room types of h that carry the minimum amount
MinCurrencies(h, default) ==
    {GetD(CurrencyOf(RoomsOf(h)[i]), default) :
        i \in {j \in 1..Len(RoomsOf(h)) : AmountOf(RoomsOf(h)[j]).n = MinAmount(h)}}

SearchedHotels ==
    /\ op = "search_hotels_for_dates"
    /\ arg.http.kind = "ok"
    /\ ret.kind = "return"

PriceClass(rows, p) == SelectSeq(rows, LAMBDA r : FloatEq(r.total_price, p))

Unranked(rows) == [i \in 1..Len(rows) |-> [rows[i] EXCEPT !.rank = 0]]

\* the priceable hotels of the response in provider order, before the sort
ProviderOrder ==
    HotelRows(DataOf(arg.http.body),
              OrElse(Get(Field(arg.http.body, "hotels")), EmptyList).items,
              arg.currency, 1, <<>>).val

\* C1: the list search_hotels_for_dates returns is the stable ascending sort
\* by total_price of the priceable hotels in provider order: prices never
\* decrease along the list, the hotels of one price keep their provider
\* order, and the element at position i carries rank i.
C1_StableAscendingRanked ==
    SearchedHotels =>
        LET out == ret.val
        IN /\ Len(out) = Len(ProviderOrder)
           /\ \A i \in 1..Len(out) - 1 :
                 FloatLe(out[i].total_price, out[i + 1].total_price)
           /\ \A i \in 1..Len(out) : out[i].rank = i
           /\ \A i \in 1..Len(out) :
                 PriceClass(Unranked(out), out[i].total_price)
                     = PriceClass(ProviderOrder, out[i].total_price)

\* three hotels come back, the provider's first one (the dearest) last, and
\* the two of equal price, from different hotels, in provider order
C1_Witness ==
    /\ SearchedHotels
    /\ Len(ret.val) = 3
    /\ ProviderOrder[1] = [ret.val[3] EXCEPT !.rank = 0]
    /\ FloatLt(ret.val[2].total_price, ret.val[3].total_price)
    /\ FloatEq(ret.val[1].total_price, ret.val[2].total_price)
    /\ ret.val[1].hotel_id # ret.val[2].hotel_id
    /\ ProviderOrder[2].hotel_id = ret.val[1].hotel_id

C3_OneOfferPerPriceableRecord ==
    SearchedHotels =>
        LET data == DataOf(arg.http.body)
            out == ret.val
        IN /\ Len(out) = Cardinality({i \in 1..Len(data) : Priceable(data[i])})
           /\ \A id \in {RecordId(data[i]) : i \in 1..Len(data)} :
                 Cardinality({k \in 1..Len(out) : out[k].hotel_id = id})
                    = Cardinality({i \in 1..Len(data) :
                                      Priceable(data[i]) /\ RecordId(data[i]) = id})

\* of three records, one without roomTypes and one with an empty list are
\* dropped and the third is offered
C3_Witness ==
    /\ SearchedHotels
    /\ Len(DataOf(arg.http.body)) = 3
    /\ \E i \in 1..3 : Field(DataOf(arg.http.body)[i], "roomTypes") = Missing
    /\ \E i \in 1..3 : Field(DataOf(arg.http.body)[i], "roomTypes") = EmptyList
    /\ Len(ret.val) = 1

\* a hotel record whose only room type has a non-numeric amount
OnlyRoomNonNumeric(h) ==
    /\ Len(RoomsOf(h)) = 1
    /\ ~NumericAmount(AmountOf(RoomsOf(h)[1]))

\* C4: a hotel record whose only room type has a non-numeric amount (a
\* non-numeric string, null, no amount key) is absent from the output and
\* normalizing completes without raising, the other hotels being returned.
C4_NonNumericOnlyRoomDropped ==
    /\ (/\ op = "search_hotels_for_dates"
        /\ Truthy(LITEAPI_API_KEY)
        /\ arg.http.kind = "ok"
        /\ \E i \in 1..Len(DataOf(arg.http.body)) :
              OnlyRoomNonNumeric(DataOf(arg.http.body)[i]))
       => /\ ret.kind = "return"
          /\ Len(ret.val) = Cardinality({i \in 1..Len(DataOf(arg.http.body)) :
                                            Priceable(DataOf(arg.http.body)[i])})
    /\ (/\ op = "build_rows_from_rates"
        /\ Field(arg.body, "data") \notin {Missing, PyNone})
       => /\ ret.kind = "return"
          /\ \A k \in 1..Len(ret.val) :
                ~OnlyRoomNonNumeric(DataOf(arg.body)[ret.val[k].no])

\* C5: a transport failure of a hotel-rates provider call (timeout,
\* connection failure, non-2xx status, JSON decode failure) yields an empty
\* list and no exception, in search_hotels_for_dates and in fetch_rates.
C5_TransportFailureYieldsEmptyList ==
    (/\ op \in {"search_hotels_for_dates", "fetch_rates"}
     /\ Truthy(LITEAPI_API_KEY)
     /\ arg.http.kind \in HotelTransportFailures)
    => ret = Return(<<>>)

\* the itinerary list of a provider result: none when it is missing or None
FlightsOf(outcome) ==
    OrElse(GetD(Field(outcome.val, "flights"), PyNone), EmptyList).items

FlightCall == op \in {"search_flights_for_date", "find_cheapest_flight_for_dates"}

\* C6: the Flight Selector never propagates a failure of the flight-search
\* collaborator: when the provider call raises, or gives an empty or
\* missing itinerary list, search_flights_for_date and
\* find_cheapest_flight_for_dates return None.
C6_FlightFailureYieldsNone ==
    (/\ FlightCall
     /\ (arg.td.trip = "round-trip" => Truthy(arg.td.ret))
     /\ \/ arg.outcome.kind = "raise"
        \/ Len(FlightsOf(arg.outcome)) = 0)
    => ret = Return(PyNone)

\* the price a selector parses from an itinerary, +infinity when it parses none
ParsedPrice(f) ==
    IF op = "search_flights_for_date"
    THEN parse_price_to_float(GetD(Field(f, "price"), PyNone))
    ELSE LET v == parse_price_value(GetD(Field(f, "price"), PyNone))
         IN IF v = PyNone THEN PyInf ELSE v

\* raw is the raw price p as the selectors report it: the string itself, a
\* number in digits, "None" or "" for no price
RawPriceIs(raw, p) ==
    CASE p.t = "str" -> raw = p
      [] p.t = "int" -> raw = PyStr(ToStr(p)) \/ (p.n = 0 /\ raw = EmptyStr)
      [] OTHER -> raw \in {EmptyStr, PyStr(ToStr(PyNone))}

ReportedFlight == FlightCall /\ ret.kind = "return" /\ ret.val # PyNone

C10_NoSentinelPrice ==
    /\ (/\ op \in {"search_flights_for_date", "find_cheapest_flight_in_month"}
        /\ ret.kind = "return"
        /\ ret.val # PyNone)
       => ~ret.val.price_value.inf
    /\ SearchedHotels => \A k \in 1..Len(ret.val) : ~ret.val[k].total_price.inf

FlightScanned == op = "find_cheapest_flight_in_month" /\ ret.kind = "return"

HotelScanned == op = "find_cheapest_hotel_in_month" /\ ret.kind = "return"

\* the days of the flight scan whose search returned an option
FlightDays == {d \in 1..Len(scan.prices) : scan.prices[d] # PyNone}

\* the per-day results a month scan hands to its caller: the list that
\* find_cheapest_hotel_in_month returns next to the minimum;
\* find_cheapest_flight_in_month returns its best option alone
DailyResults ==
    IF op = "find_cheapest_hotel_in_month" THEN ret.val[2] ELSE <<>>

\* the days of the scanned month whose search returned a result
RemainingDays ==
    IF op = "find_cheapest_hotel_in_month"
    THEN (1..monthrange(arg.year, arg.month)) \ scan.skipped
    ELSE FlightDays

C9_EarliestDayOfMinimumPrice ==
    /\ (FlightScanned /\ ret.val # PyNone) =>
          \A d \in FlightDays :
             FloatEq(scan.prices[d], ret.val.price_value) => ret.val.depart_date.d <= d
    /\ (HotelScanned /\ ret.val[1] # PyNone) =>
          \A i \in 1..Len(ret.val[2]) :
             FloatEq(ret.val[2][i].price, ret.val[1].price)
                => ret.val[1].checkin.d <= ret.val[2][i].checkin.d

\* two days share a price below that of day 1, and the earlier is reported
C9_Witness ==
    /\ FlightScanned
    /\ ret.val # PyNone
    /\ 1 \in FlightDays
    /\ FloatLt(ret.val.price_value, scan.prices[1])
    /\ \E d \in FlightDays :
          /\ d > ret.val.depart_date.d
          /\ FloatEq(scan.prices[d], ret.val.price_value)

ParseCall == op = "parse_price_to_float"

\* the characters of a raw price that are digits or the decimal point, in
\* their original order
DigitsAndPoint(s) ==
    SelectSeq(s, LAMBDA ch :
        ch \in {"0", "1", "2", "3", "4", "5", "6", "7", "8", "9", "."})

DigitsOnly(s) == SelectSeq(s, LAMBDA ch : ch # ".")

\* a decimal numeral: at least one digit and at most one decimal point
IsNumeral(k) == Len(DigitsOnly(k)) > 0 /\ Len(k) - Len(DigitsOnly(k)) <= 1

\* the digits of the fractional part of a numeral
FractionLen(k) ==
    IF Len(k) = Len(DigitsOnly(k)) THEN 0
    ELSE Len(k) - (CHOOSE i \in 1..Len(k) : k[i] = ".")

RECURSIVE StripZeros(_)
\* a digit string without its leading zeros
StripZeros(ds) ==
    IF Len(ds) > 1 /\ Head(ds) = "0" THEN StripZeros(Tail(ds)) ELSE ds

\* x is the number the numeral k denotes: scaled by the power of ten of the
\* fractional digits it is the integer whose decimal writing is the digits
\* of k
Denotes(k, x) ==
    /\ ~x.inf
    /\ x.num >= 0
    /\ (x.num * Pow10(FractionLen(k))) % x.den = 0
    /\ NatToStr((x.num * Pow10(FractionLen(k))) \div x.den) = StripZeros(DigitsOnly(k))

\* C11: for every string, parse_price_to_float returns the number denoted by
\* the digits and decimal points of the string, kept in order, and +infinity
\* when these are none or no numeral; "₩1,234" gives 1234, None and "abc"
\* give +infinity, 42 gives 42.
C11_ParsesDigitsAndPoint ==
    ParseCall =>
       /\ arg.t = "str" =>
             IF IsNumeral(DigitsAndPoint(arg.s))
             THEN Denotes(DigitsAndPoint(arg.s), ret.val)
             ELSE ret.val = PyInf
       /\ arg = Won1234 => FloatEq(ret.val, PyFloat(1234, 1))
       /\ arg = PyNone => ret.val = PyInf
       /\ arg = PyStr(<<"a", "b", "c">>) => ret.val = PyInf
       /\ arg = PyInt(42) => FloatEq(ret.val, PyFloat(42, 1))

\* a price with a currency sign and a thousands separator is parsed
C11_Witness ==
    /\ ParseCall
    /\ arg = Won1234
    /\ DigitsAndPoint(arg.s) = <<"1", "2", "3", "4">>
    /\ ret.val = PyFloat(1234, 1)

\* C12: for every input, None, a number or a string, parse_price_to_float
\* returns a finite value that is not negative, or +infinity; it returns
\* no negative value and does not raise.
C12_NeverNegativeNeverRaises ==
    ParseCall =>
       /\ ret.kind = "return"
       /\ ret.val.inf \/ ret.val.num >= 0

HotelCall ==
    op \in {"search_hotels_for_dates", "fetch_rates", "find_cheapest_hotel_in_month"}

\* C13: without the LiteAPI credential every hotel operation ends with the
\* configuration error, raised at the first attempt and before any request
\* is sent; a hotel month scan stops there and makes no search for a
\* further day.
C13_ConfigurationErrorSurfacedAtOnce ==
    (HotelCall /\ ~Truthy(LITEAPI_API_KEY)) =>
       /\ sent = <<>>
       /\ ret # Running => ret = Raise("RuntimeError")
       /\ op = "find_cheapest_hotel_in_month" => Len(scan.searches) <= 1

\* C14: for a (depart, return) pair the Flight Selector makes exactly one
\* request of the flight-search collaborator, and exactly one more, in
\* another mode, if and only if that request failed with an
\* authentication error: two requests then, one in every other case.
C14_OneRequestRetriedOnceOnAuthError ==
    FlightCall =>
       /\ Len(sent) = (IF arg.outcome = Raise("AuthError") THEN 2 ELSE 1)
       /\ Len(sent) = 2 => sent[2].fetch_mode # sent[1].fetch_mode

\* index has converted the price of a flight whose price_value is finite
FlightPriced ==
    /\ op = "flight_price_krw"
    /\ arg.best_flight # PyNone
    /\ arg.best_flight.price_value # PyNone
    /\ ~arg.best_flight.price_value.inf

HasDollar(flight) == \E i \in 1..Len(flight.price_raw.s) : flight.price_raw.s[i] = "$"

Dollar1050 == PyStr(<<"$", "1", ",", "0", "5", "0">>)

\* n is x times rate cut to an integer, x not negative
TruncatedProduct(n, x, rate) ==
    /\ n * x.den <= x.num * rate
    /\ x.num * rate < (n + 1) * x.den

\* C15 as stated: the static rate is 1350, and "$1,050" gives 1417500 KRW.
C15_ConvertedAtRate1350 ==
    FlightPriced =>
       /\ ret.val.t = "int"
       /\ TruncatedProduct(ret.val.n, arg.best_flight.price_value,
                           IF HasDollar(arg.best_flight) THEN 1350 ELSE 1)
       /\ arg.best_flight.price_raw = Dollar1050 =>
             /\ arg.best_flight.price_value = PyFloat(1050, 1)
             /\ ret.val.n = 1417500

\* C15: a flight with a finite price_value whose raw price contains "$" is
\* taken as USD: its KRW price is price_value times the static rate
\* USD_TO_KRW = 1480 cut to an integer; without "$" it is price_value cut to
\* an integer.  For "$1,050" price_value is 1050 and the KRW price 1554000.
C15_DollarPriceConvertedAtStaticRate ==
    FlightPriced =>
       /\ ret.val.t = "int"
       /\ TruncatedProduct(ret.val.n, arg.best_flight.price_value,
                           IF HasDollar(arg.best_flight) THEN 1480 ELSE 1)
       /\ arg.best_flight.price_raw = Dollar1050 =>
             /\ arg.best_flight.price_value = PyFloat(1050, 1)
             /\ ret.val.n = 1554000

\* "$1,050" converted in one mode, and the fraction of "9.99" cut off in
\* the other
C15_Witness ==
    /\ FlightPriced
    /\ \/ /\ arg.mode = "flight_hotel_month"
          /\ arg.best_flight.price_raw = Dollar1050
          /\ ret.val = PyInt(1554000)
       \/ /\ arg.mode = "flight_hotel_period"
          /\ arg.best_flight.price_raw = PyStr(<<"9", ".", "9", "9">>)
          /\ ret.val = PyInt(9)

\* whether the value a month scan returns carries the list of per-day
\* results next to the minimum: find_cheapest_hotel_in_month returns the
\* pair (cheapest, daily_results), find_cheapest_flight_in_month its best
\* option alone
ReturnsDailyResults == op = "find_cheapest_hotel_in_month"

\* the minimum-price result a month scan returns
ScanMinimum == IF ReturnsDailyResults THEN ret.val[1] ELSE ret.val

C17_NormalizerTotalOnMalformedData ==
    (/\ op = "search_hotels_for_dates"
     /\ Truthy(LITEAPI_API_KEY)
     /\ arg.http.kind = "ok")
    => ret.kind = "return"

\* a hotel record of which some room types carry a number as amount and the
\* others no amount, a null amount or a string that spells no number
MixedAmounts(h) ==
    /\ \E i \in 1..Len(RoomsOf(h)) : AmountOf(RoomsOf(h)[i]).t = "int"
    /\ \E i \in 1..Len(RoomsOf(h)) : AmountOf(RoomsOf(h)[i]).t # "int"
    /\ \A i \in 1..Len(RoomsOf(h)) : ~(/\ AmountOf(RoomsOf(h)[i]).t = "str"
                                        /\ NumericAmount(AmountOf(RoomsOf(h)[i])))

\* the smallest of the amounts of h that are numbers
SmallestNumber(h) ==
    LET amounts == {AmountOf(RoomsOf(h)[i]).n :
                       i \in {j \in 1..Len(RoomsOf(h)) : AmountOf(RoomsOf(h)[j]).t = "int"}}
    IN CHOOSE n \in amounts : \A k \in amounts : n <= k

\* C20: when some room types of a hotel have a missing, null or unparseable
\* amount and at least one has a numeric amount, the former count as
\* +infinity: the call completes and the hotel is returned with the
\* smallest numeric amount, in search_hotels_for_dates and in
\* build_rows_from_rates.
C20_UnparseableAmountsCountAsInfinity ==
    /\ (/\ op = "search_hotels_for_dates"
        /\ Truthy(LITEAPI_API_KEY)
        /\ arg.http.kind = "ok")
       => \A i \in 1..Len(DataOf(arg.http.body)) :
             LET h == DataOf(arg.http.body)[i]
             IN MixedAmounts(h) =>
                   /\ ret.kind = "return"
                   /\ \E k \in 1..Len(ret.val) :
                         /\ ret.val[k].hotel_id = RecordId(h)
                         /\ ret.val[k].total_price = PyFloat(SmallestNumber(h), 1)
    /\ (/\ op = "build_rows_from_rates"
        /\ Field(arg.body, "data") \notin {Missing, PyNone})
       => \A i \in 1..Len(DataOf(arg.body)) :
             LET h == DataOf(arg.body)[i]
             IN (MixedAmounts(h) /\ i <= arg.top_n /\ Truthy(RecordId(h))) =>
                   /\ ret.kind = "return"
                   /\ \E k \in 1..Len(ret.val) :
                         /\ ret.val[k].no = i
                         /\ ret.val[k].price = PyInt(SmallestNumber(h))

\* C18: the rows build_rows_from_rates returns are ranked as by the Hotel
\* Ranker: their numbers "no" are 1..N in order, N being the number of rows
\* returned, also when records are skipped, and their prices ascend.
C18_RowsNumberedDenselyAndAscending ==
    (op = "build_rows_from_rates" /\ ret.kind = "return") =>
       \A k \in 1..Len(ret.val) :
          /\ ret.val[k].no = k
          /\ (/\ k > 1
              /\ ret.val[k - 1].price.t = "int"
              /\ ret.val[k].price.t = "int")
             => ret.val[k - 1].price.n <= ret.val[k].price.n

\* the day number of a date of the Gregorian calendar
DayNumber(date) ==
    LET a == (14 - date.m) \div 12
        y == date.y + 4800 - a
        m == date.m + 12 * a - 3
    IN date.d + (153 * m + 2) \div 5 + 365 * y + y \div 4 - y \div 100 + y \div 400
       - 32045

\* the number of calendar days of a month
CalendarDays(year, month) ==
    DayNumber(IF month = 12 THEN Date(year + 1, 1, 1) ELSE Date(year, month + 1, 1))
    - DayNumber(Date(year, month, 1))

IsCalendarDate(date) ==
    /\ date.m \in 1..12
    /\ date.d \in 1..CalendarDays(date.y, date.m)

MonthScan == op \in {"find_cheapest_flight_in_month", "find_cheapest_hotel_in_month"}

\* the searches a month scan has made are those of the first days of the
\* month, one for each day and in ascending order; a round-trip flight
\* search is given the day plus stay_nights as return date, a one-way
\* search none; every flight search made one request, of that day
SearchesInDayOrder ==
    MonthScan =>
       /\ Len(scan.searches) = scan.day - 1
       /\ Len(scan.searches) <= CalendarDays(arg.year, arg.month)
       /\ ret # Running => Len(scan.searches) = CalendarDays(arg.year, arg.month)
       /\ op = "find_cheapest_hotel_in_month" =>
             \A i \in 1..Len(scan.searches) :
                scan.searches[i].checkin = Date(arg.year, arg.month, i)
       /\ op = "find_cheapest_flight_in_month" =>
             /\ Len(sent) = Len(scan.searches)
             /\ \A i \in 1..Len(scan.searches) :
                   LET search == scan.searches[i]
                   IN /\ search.depart = Date(arg.year, arg.month, i)
                      /\ sent[i].flight_data[1] = search.depart
                      /\ IF arg.trip = "round-trip"
                         THEN /\ IsCalendarDate(search.return_date)
                              /\ DayNumber(search.return_date)
                                    = DayNumber(search.depart) + arg.stay_nights
                              /\ sent[i].flight_data = <<search.depart, search.return_date>>
                         ELSE /\ search.return_date = PyNone
                              /\ sent[i].flight_data = <<search.depart>>

\* C19: for every year and month a month scan terminates after making
\* exactly one search for each calendar day of the month (28, 29, 30 or 31
\* searches), in ascending day order and one after another; a round-trip
\* flight scan passes the day plus stay_nights as return date, a one-way
\* scan none.  Stated for ScanSpec: every scan that has been called
\* returns, given that each of its steps is eventually taken.
C19_OneSearchPerCalendarDayThenReturns ==
    /\ []SearchesInDayOrder
    /\ (MonthScan /\ ret = Running)
          ~> (/\ MonthScan /\ ret # Running
              /\ Len(scan.searches) \in 28..31
              /\ Len(scan.searches) = CalendarDays(arg.year, arg.month))

\* a round-trip scan of a leap February has returned after 29 searches, the
\* last of them returning in March
C19_Witness ==
    /\ FlightScanned
    /\ arg.trip = "round-trip"
    /\ arg.year = 2024 /\ arg.month = 2
    /\ Len(scan.searches) = 29
    /\ scan.searches[29].return_date = Date(2024, 3, 3)

\* the metadata array of a response
MetasOf(body) == OrElse(Get(Field(body, "hotels")), EmptyList).items

\* the positions of the metadata entries whose id is non-empty and equals
\* the hotel id of the record h
MatchingMetas(body, h) ==
    {i \in 1..Len(MetasOf(body)) :
        /\ Truthy(Get(Field(MetasOf(body)[i], "id")))
        /\ Get(Field(MetasOf(body)[i], "id")) = RecordId(h)}

\* the descriptive sub-record of the record h: the inline hotel object when
\* it is present and non-empty, else the metadata entry of its id (the last
\* one when several have that id), else an empty record
SubRecord(body, h) ==
    IF Truthy(Get(Field(h, "hotel"))) THEN Get(Field(h, "hotel"))
    ELSE IF MatchingMetas(body, h) # {}
         THEN MetasOf(body)[CHOOSE i \in MatchingMetas(body, h) :
                               \A j \in MatchingMetas(body, h) : j <= i]
         ELSE EmptyDict

\* a search that returned the one hotel of a response
OneHotelReturned ==
    /\ op = "search_hotels_for_dates"
    /\ arg.http.kind = "ok"
    /\ Len(DataOf(arg.http.body)) = 1
    /\ ret.kind = "return"
    /\ Len(ret.val) = 1

\* C22: name, star rating and address of a returned hotel are those of its
\* inline hotel object when that is present and non-empty, otherwise those
\* of the metadata entry whose non-empty id equals the record's hotel id,
\* otherwise those of an empty record (empty name, no star rating, empty
\* address); an inline object is never overridden and an entry with an
\* empty or missing id never matched.
C22_InlineThenMetadataThenEmpty ==
    OneHotelReturned =>
       LET sub == SubRecord(arg.http.body, DataOf(arg.http.body)[1])
       IN /\ ret.val[1].name = OrElse(Get(Field(sub, "name")), EmptyStr)
          /\ ret.val[1].star_rating = Get(Field(sub, "starRating"))
          /\ ret.val[1].address = HotelAddress(sub)

\* a record without inline object took the name of the later of the two
\* metadata entries of its id, an entry with an empty id being in the array
C22_Witness ==
    /\ OneHotelReturned
    /\ Get(Field(DataOf(arg.http.body)[1], "hotel")) = EmptyDict
    /\ \E i, j \in 1..Len(MetasOf(arg.http.body)) :
          /\ i < j
          /\ MetasOf(arg.http.body)[i] = Meta(H1, PyStr(<<"B">>))
          /\ MetasOf(arg.http.body)[j] = Meta(H1, PyStr(<<"F">>))
    /\ ret.val[1].name = PyStr(<<"F">>)
    /\ ret.val[1].star_rating = PyInt(5)

\* the components of an address mapping, in their order
AddressKeys == <<"line1", "line2", "city", "state", "postalCode", "country">>

RECURSIVE JoinFrom(_, _, _)
\* the non-empty string components of the mapping m from position i on,
\* joined by single spaces after the string acc
JoinFrom(m, i, acc) ==
    IF i > Len(AddressKeys) THEN acc
    ELSE LET part == Get(Field(m, AddressKeys[i]))
         IN IF part.t = "str" /\ Len(part.s) > 0
            THEN JoinFrom(m, i + 1, IF Len(acc) = 0 THEN part.s
                                    ELSE acc \o <<" ">> \o part.s)
            ELSE JoinFrom(m, i + 1, acc)

\* the address of a descriptive sub-record as the joined components of its
\* address mapping, its address string, the joined components of its
\* location mapping, or the empty string
JoinedAddress(info) ==
    LET addr == Get(Field(info, "address"))
        location == Get(Field(info, "location"))
    IN IF addr.t = "dict" THEN PyStr(JoinFrom(addr, 1, <<>>))
       ELSE IF addr.t = "str" THEN addr
       ELSE IF location.t = "dict" THEN PyStr(JoinFrom(location, 1, <<>>))
       ELSE EmptyStr

\* C21: the address of a returned hotel is, for an address mapping, all its
\* non-empty components (street lines, city, state, postal code, country)
\* joined by single spaces in that order; for an address string, that
\* string; otherwise the value of the location mapping; otherwise the empty
\* string.
C21_AddressJoinsComponents ==
    OneHotelReturned =>
       ret.val[1].address
          = JoinedAddress(SubRecord(arg.http.body, DataOf(arg.http.body)[1]))

\* the airline label of an itinerary: its name when non-empty, else its
\* airline when non-empty, else "N/A"
AirlineLabel(f) ==
    IF Truthy(Field(f, "name")) THEN Field(f, "name")
    ELSE IF Truthy(Field(f, "airline")) THEN Field(f, "airline")
    ELSE PyStr(<<"N", "/", "A">>)

\* C23: the airline of every flight search_flights_for_date and
\* find_cheapest_flight_for_dates report is the label of the reported
\* itinerary: its name when non-empty, else its airline when non-empty,
\* else "N/A"; it is never the empty string.
C23_AirlineLabelNeverEmpty ==
    ReportedFlight =>
       /\ ret.val.airline # EmptyStr
       /\ \E i \in 1..Len(FlightsOf(arg.outcome)) :
             /\ RawPriceIs(ret.val.price_raw, Field(FlightsOf(arg.outcome)[i], "price"))
             /\ ret.val.airline = AirlineLabel(FlightsOf(arg.outcome)[i])

\* C28: on every input, None, a number (0 and negative ones included) or a
\* string, _parse_price_value returns None exactly when
\* parse_price_to_float returns +infinity, and otherwise the two return the
\* same number.
C28_PriceParsersAgree ==
    ParseCall =>
       /\ parse_price_value(arg) = PyNone <=> ret.val = PyInf
       /\ parse_price_value(arg) # PyNone => FloatEq(parse_price_value(arg), ret.val)

\* C24: in mode flight_hotel_month of either application the hotel provider
\* is asked at most once per request, after get_flights was asked for every
\* day of the month and the scan returned a flight, for the stay from the
\* flight's depart date to its return date, or to depart + nights when it
\* has none; when the scan returns no flight the provider is not asked and
\* fh_hotels, combo_hotel and combined_total stay empty
C24_HotelAfterFlightScan ==
    (/\ op = "index" /\ arg.req.method = "POST" /\ ret.kind = "return"
     /\ FormGet(arg.req.form, "mode") = "flight_hotel_month") =>
       LET f == IF arg.app = "app" THEN FormValues(arg.req.form)
                ELSE HoongoraFormValues(arg.req.form)
           page == ret.val
           stays == {i \in 1..Len(sent) : sent[i].to = "hotels/rates"}
       IN /\ Cardinality(stays) <= 1
          /\ \A i \in stays :
                /\ i = Len(sent)
                /\ i - 1 = monthrange(f.year, f.month)
                /\ \A j \in 1..(i - 1) : sent[j].to = "get_flights"
                /\ page.best_flight # PyNone
                /\ sent[i].checkin = page.best_flight.depart_date
                /\ sent[i].checkout =
                      IF Truthy(page.best_flight.return_date)
                      THEN page.best_flight.return_date
                      ELSE AddDays(page.best_flight.depart_date, f.nights)
          /\ page.best_flight = PyNone =>
                /\ stays = {}
                /\ page.fh_hotels = <<>>
                /\ page.combo_hotel = PyNone
                /\ page.combined_total = PyNone

\* a one-way month search found a flight and asked for the stay of nights
\* nights from its depart date, after the 31 days of the scan
C24_Witness ==
    /\ op = "index" /\ arg.req.method = "POST" /\ ret.kind = "return"
    /\ FormGet(arg.req.form, "mode") = "flight_hotel_month"
    /\ FormGet(arg.req.form, "trip") = "one-way"
    /\ ret.val.best_flight # PyNone
    /\ ret.val.best_flight.return_date = PyNone
    /\ Len(sent) = 32
    /\ sent[32] = [to |-> "hotels/rates", checkin |-> Date(2026, 1, 1),
                   checkout |-> Date(2026, 1, 4)]
    /\ ret.val.combo_hotel # PyNone

\* C25: in the two flight+hotel modes of index of app.py, for every integer
\* fh_top_n, when the hotel search returned a non-empty list combo_hotel is
\* its rank-1 hotel, no error is reported and, a KRW flight price being
\* computed, combined_total is flight_price_krw + int(total_price) of that
\* hotel; combined_total is None when the flight price or the hotel is
\* missing
C25_ComboHotelForEveryTopN ==
    (/\ op = "index" /\ arg.app = "app" /\ arg.req.method = "POST"
     /\ ret.kind = "return"
     /\ FormGet(arg.req.form, "mode") \in {"flight_hotel_period", "flight_hotel_month"}) =>
       LET page == ret.val
           hotels == arg.env.hotels
           searched == \E i \in 1..Len(sent) : sent[i].to = "hotels/rates"
       IN /\ (searched /\ hotels.kind = "return" /\ Len(hotels.val) > 0) =>
                /\ page.combo_hotel = hotels.val[1]
                /\ \A i \in 1..Len(hotels.val) :
                      ~FloatLt(hotels.val[i].total_price, page.combo_hotel.total_price)
                /\ page.error = PyNone
                /\ page.flight_price_krw # PyNone =>
                      page.combined_total =
                         PyInt(page.flight_price_krw.n
                               + IntOfFloat(page.combo_hotel.total_price))
          /\ (page.flight_price_krw = PyNone \/ page.combo_hotel = PyNone) =>
                page.combined_total = PyNone

\* C26: with ACCESS_KEY configured, a request that presented no key equal
\* to ACCESS_KEY (in the query string, the form or the X-Access-Key header)
\* causes no flight or hotel provider request; such a POST is aborted with
\* 403 by the gate; a GET causes no provider request and app.py admits it
\* without a key; without ACCESS_KEY no request is aborted
C26_NoProviderCallWithoutKey ==
    op = "index" =>
       LET configured == Truthy(arg.ACCESS_KEY)
           presented == \E k \in {"args", "form", "header"} :
                           Get(Field(arg.req.keys, k)) = arg.ACCESS_KEY
       IN /\ (configured /\ ~presented) => sent = <<>>
          /\ (configured /\ ~presented /\ arg.req.method = "POST") => ret = Abort(403)
          /\ arg.req.method = "GET" =>
                /\ sent = <<>>
                /\ arg.app = "app" => ret = Return(Page)
          /\ ~configured => ret.kind # "abort"

\* a POST for the default month search with a wrong key, to a configured
\* application whose providers would have answered, is aborted
C26_Witness ==
    /\ op = "index" /\ arg.req.method = "POST" /\ arg.req.form = NoForm
    /\ arg.ACCESS_KEY = Secret
    /\ Get(Field(arg.req.keys, "args")) = Wrong
    /\ Truthy(LITEAPI_API_KEY)
    /\ arg.env.hotels.kind = "return" /\ Len(arg.env.hotels.val) = 3
    /\ ret = Abort(403)
    /\ sent = <<>>

\* C27: every POST that index of app.py or of hoongora-travel/app.py
\* receives, whatever its form values and however the providers and the
\* configuration fail, ends with the rendered page and no exception leaves
\* the handler; error is set when the search failed: on a malformed date of
\* a period mode, on a year or month the calendar rejects, and when the
\* hotel search of a found flight or of a period raised
C27_HandlerNeverPropagates ==
    (op = "index" /\ arg.req.method = "POST" /\ ret.kind # "abort") =>
       /\ ret.kind = "return"
       /\ LET mode == FormGet(arg.req.form, "mode")
              period == mode = "hotel_period"
                           \/ (mode = "flight_hotel_period" /\ arg.app = "app")
              f == FormValues(arg.req.form)
              dated == /\ fromisoformat(f.checkin).kind = "return"
                       /\ fromisoformat(f.checkout).kind = "return"
          IN /\ (period /\ ~dated) => ret.val.error # PyNone
             /\ (mode \in {"hotel_month", "flight_hotel_month"}
                    /\ f.year \notin 1..9999) => ret.val.error # PyNone
             /\ (mode = "hotel_period" /\ dated
                    /\ fetch_rates(LITEAPI_API_KEY, arg.env.http).kind = "raise")
                => ret.val.error # PyNone
             /\ (/\ \/ mode = "flight_hotel_period" /\ arg.app = "app" /\ dated
                    \/ mode = "flight_hotel_month" /\ ret.val.best_flight # PyNone
                 /\ arg.env.hotels.kind = "raise")
                => ret.val.error # PyNone
====
